---- MODULE Spec2Model ----
(***************************************************************************)
(* Paired-order risk manager of the Polymarket pair-order scripts.         *)
(*                                                                         *)
(* The model follows runOneWindow of the TypeScript variant                *)
(* (src/unnamed/part_003), whose monitoring loop is the loop of the plain  *)
(* JavaScript variant (src/unnamed/part_001) with the RTDS gate added, and *)
(* the same loop as the RTDS JavaScript variant (src/check_progress.sh).   *)
(*                                                                         *)
(* Units: time in seconds, prices in 1/1000 of a dollar, sizes in shares   *)
(* in the monitoring loop and in 1/1000000 of a share in main(), where the *)
(* size is computed to six decimals.                                       *)
(* One action is one stretch of synchronous code between two awaits, so    *)
(* the feed callback and the exchange can interleave exactly where the     *)
(* event loop lets them.                                                   *)
(***************************************************************************)
EXTENDS Integers, Sequences, FiniteSets, TLC

\* ------------------------------------------------------------------ bounds
\* shares submitted on each leg (2 leaves room for a partial fill)
SIZE == 2
\* longest time the fill reads or the book read of one iteration may take
MaxStall == 1
\* window duration in seconds (DURATION_MIN * 60 of the code)
DurationSec == 5
\* windows the repeat loop is followed for
MaxWindows == 3

\* ------------------------------------------------------- program constants
\* --price default 0.49
PRICE == 490
\* --min-hedge-edge default 0.002
MIN_HEDGE_EDGE == 2
\* the idle sleep of the RTDS gate is max(POLL_SEC, 3)
MinIdleSec == 3
\* one dollar, in price units
ONE == 1000

\* the period of the repeat mode, 15 * 60 * 1000 ms
PeriodSec == 900
\* the window of ceilToWindowMs(Date.now(), 15), in minutes
PeriodMin == 15
\* --min-edge default 0.005
MIN_EDGE == 5
\* --poll-sec default
DefaultPollSec == 3
\* --pair-grace-sec default
DefaultGraceSec == 10

\* order ids given by the exchange to the UP leg, the DOWN leg and a hedge
UpId == 1
DownId == 2
HedgeId == 3

\* a missing number (null)
NULL == -1
\* a number that is not finite (NaN)
NAN == -2
\* the empty string as a part of a market slug
EMPTY == -3
\* the sixth decimal of toFixed(6): sizes per share in main()
Micro == 1000000

Policies == {"wait", "cancel", "hedge"}
PollSecs == {2, 4}
GraceSecs == {0, 2}
TickSizes == {10}

VARIABLES
    cfg,                 \* ON_SINGLE_FILL, USE_RTDS, PAIR_GRACE_SEC, POLL_SEC, ticks
    now,                 \* Date.now()
    pc,                  \* where runOneWindow stands
    exch,                \* the exchange: order id -> order
    orderIds,            \* the ids the closing sweep will cancel
    cancelAtMs,          \* the deadline
    rtdClient,           \* TRUE when the RTDS client object exists
    rtdsConnected,       \* onConnect has run
    rtdsTriggered,       \* the pending flag set by onMessage
    upOrder,             \* the UP order as read in this iteration
    firstSingleFillAtMs, \* grace timer (NULL when unset)
    actedOnSingleFill,   \* mitigation latch
    mit,                 \* locals of the mitigation branch
    sweepIdx,            \* next index of orderIds in the closing sweep
    obs,                 \* the reads of this iteration, and the observation history
    acts,                \* history: the exchange calls made
    main                 \* main(): arguments, resolved start, window count, placement

vars == <<cfg, now, pc, exch, orderIds, cancelAtMs, rtdClient, rtdsConnected,
          rtdsTriggered, upOrder, firstSingleFillAtMs, actedOnSingleFill, mit,
          sweepIdx, obs, acts, main>>

\* ----------------------------------------------------------------- helpers

Max(a, b) == IF a >= b THEN a ELSE b
Abs(a) == IF a >= 0 THEN a ELSE -a

\* a || b on numbers: b when a is 0 (or NaN), else a
OrElse(a, b) == IF a = 0 THEN b ELSE a

\* a quantizer that rounds to the nearest tick
roundDownToTick_Nearest(x, t) ==
    IF t = NAN \/ t <= 0 THEN x
    ELSE IF 2 * (x % t) >= t THEN (x \div t + 1) * t ELSE (x \div t) * t

\* roundDownToTick: floor(x / t + 1e-9) * t, then toFixed(8).  With x and t
\* whole numbers of price units the quotient x / t is snapped up only when its
\* fractional part is within 1e-9 of 1, i.e. (t - r) * 10^9 <= t, and
\* toFixed(8) leaves a whole number of price units as it is.
roundDownToTick(x, t) ==
    IF t = NAN \/ t <= 0 THEN x
    ELSE LET q == x \div t
             r == x % t
         IN IF r # 0 /\ (t - r) <= t \div 1000000000 THEN (q + 1) * t ELSE q * t

\* an order as client.getOrder returns it, or null
NullOrder == [found |-> FALSE, size_matched |-> 0, original_size |-> 0]

\* safeGetOrder: the order, or null when the call throws
safeGetOrder(ok, o) ==
    IF ok THEN [found |-> TRUE, size_matched |-> o.matched, original_size |-> o.size]
    ELSE NullOrder

parseMatchedShares(order) == IF ~order.found THEN 0 ELSE order.size_matched

parseOriginalShares(order) == IF ~order.found THEN 0 ELSE order.original_size

\* a cancelBestEffort that lets the exception of a failed cancel escape
cancelBestEffort_Throws(ok) == [ok |-> ok, thrown |-> ~ok]

\* cancelBestEffort: the result of the call, never an exception
cancelBestEffort(ok) == [ok |-> ok, thrown |-> FALSE]

\* upFull / downFull: matched + eps >= orig.  Shares are whole numbers here,
\* so eps = 1e-9 does not change the comparison.
legFull(matched, orig) == matched >= orig

\* a both-full test that asks for more than the original size
bothFull_Strict(upMatched, upOrig, downMatched, downOrig) ==
    upMatched > upOrig /\ downMatched > downOrig

bothFull(upMatched, upOrig, downMatched, downOrig) ==
    legFull(upMatched, upOrig) /\ legFull(downMatched, downOrig)

\* upSome / downSome: matched > eps
legSome(matched) == matched > 0

oneSome(upMatched, downMatched) ==
    \/ legSome(upMatched) /\ ~legSome(downMatched)
    \/ ~legSome(upMatched) /\ legSome(downMatched)

\* a guard that forgets the latch
MitigationGuard_NoLatch(one, acted) == one

\* if (oneSome && !actedOnSingleFill)
MitigationGuard(one, acted) == one /\ ~acted

\* a grace timer that every single-leg observation starts again
GraceStart_Restarts(first, t) == t

\* if (firstSingleFillAtMs === null) firstSingleFillAtMs = Date.now()
GraceStart(first, t) == IF first = NULL THEN t ELSE first

\* a grace test that needs more than the grace period
GraceElapsed_Strict(t, first, grace) == t - first > grace

\* a grace test that never waits
GraceElapsed_Always(t, first, grace) == TRUE

\* elapsed >= PAIR_GRACE_SEC
GraceElapsed(t, first, grace) == t - first >= grace

\* the filled side taken from the wrong comparison
filledSide_Flipped(upMatched, downMatched) == IF upMatched < downMatched THEN "UP" ELSE "DOWN"

filledSide(upMatched, downMatched) == IF upMatched > downMatched THEN "UP" ELSE "DOWN"

missingShares(upMatched, downMatched) == Abs(upMatched - downMatched)

otherToken(side) == IF side = "UP" THEN "DOWN" ELSE "UP"

\* a cancel aimed at the order of the filled leg
unfilledOrderId_Filled(side) == IF side = "UP" THEN UpId ELSE DownId

\* const unfilledOrderId = filledSide === "UP" ? downResp.orderID : upResp.orderID
unfilledOrderId(side) == IF side = "UP" THEN DownId ELSE UpId

otherTick(side) == IF side = "UP" THEN cfg.downTick ELSE cfg.upTick

maxOtherPrice == ONE - PRICE - MIN_HEDGE_EDGE

\* a hedge evaluation that refuses an ask equal to the ceiling
HedgeDecision_OffByOne(bestAsk, maxOther) ==
    IF bestAsk < 0 THEN "noask"
    ELSE IF bestAsk >= maxOther THEN "tooexpensive"
    ELSE "submit"

\* the three outcomes of the hedge evaluation
HedgeDecision(bestAsk, maxOther) ==
    IF bestAsk < 0 THEN "noask"
    ELSE IF bestAsk > maxOther THEN "tooexpensive"
    ELSE "submit"

\* sleep(Math.max(POLL_SEC, 3) * 1000)
idleSec == Max(cfg.poll, MinIdleSec)

NoOrder == [placed |-> FALSE, token |-> "", price |-> 0, size |-> 0,
            matched |-> 0, live |-> FALSE, postOnly |-> FALSE]

LegOrder(token, price, postOnly) ==
    [placed |-> TRUE, token |-> token, price |-> price, size |-> SIZE,
     matched |-> 0, live |-> TRUE, postOnly |-> postOnly]

NoMit == [side |-> "", missing |-> 0, bookRead |-> FALSE, bestAsk |-> NULL]

NoObs == [n |-> 0, up |-> 0, upOrig |-> 0, down |-> 0, downOrig |-> 0,
          firstOneSomeAt |-> NULL, seenUp |-> FALSE]

NoActs == [mitCount |-> 0, cancels |-> <<>>, hedges |-> <<>>,
           feedEver |-> FALSE, fatalIn |-> "none"]

\* main() as the monitoring loop of one window sees it: nothing of it is read
NoMain == [variant |-> "ts", fatal |-> "none", clients |-> 0,
           firstWindowStartMs |-> NULL, windowStartMs |-> NULL, windows |-> 1,
           size |-> SIZE, trace |-> <<>>, posts |-> <<>>]

\* -------------------------------------------------------------------- Init
\* The state at the head of the monitoring loop: both legs are placed, the
\* deadline is set, the RTDS client is built (or its construction threw).
LoopStart ==
    /\ now = 0
    /\ pc = "loopHead"
    /\ exch = [i \in {UpId, DownId, HedgeId} |->
                 IF i = UpId THEN LegOrder("UP", roundDownToTick(PRICE, cfg.upTick), cfg.postOnly)
                 ELSE IF i = DownId THEN LegOrder("DOWN", roundDownToTick(PRICE, cfg.downTick), cfg.postOnly)
                 ELSE NoOrder]
    /\ orderIds = <<UpId, DownId>>
    /\ cancelAtMs = now + DurationSec
    /\ rtdClient \in (IF cfg.useRtds THEN BOOLEAN ELSE {FALSE})
    /\ rtdsConnected = FALSE
    /\ rtdsTriggered = FALSE
    /\ upOrder = NullOrder
    /\ firstSingleFillAtMs = NULL
    /\ actedOnSingleFill = FALSE
    /\ mit = NoMit
    /\ sweepIdx = 0
    /\ obs = NoObs
    /\ acts = NoActs
    /\ main = NoMain

\* a window of any policy, with or without the event feed
Init ==
    /\ cfg \in [policy : Policies, useRtds : BOOLEAN, grace : GraceSecs,
                poll : PollSecs, upTick : TickSizes, downTick : TickSizes,
                postOnly : {TRUE}]
    /\ LoopStart

\* ----------------------------------------------------------------- actions

Stalls == 0..MaxStall

\* leaving the loop: rtdClient.disconnect(), then the sweep starts
ExitLoop ==
    /\ pc' = "sweep"
    /\ sweepIdx' = 1
    /\ rtdsConnected' = FALSE

\* a loop head that tests the deadline only when the RTDS gate lets the
\* iteration through
LoopHead_GateFirst ==
    /\ pc = "loopHead"
    /\ IF cfg.useRtds /\ rtdClient /\ ~rtdsTriggered
       THEN /\ pc' = "idleSleep"
            /\ UNCHANGED <<rtdsTriggered, sweepIdx, rtdsConnected>>
       ELSE IF ~(now < cancelAtMs)
            THEN /\ ExitLoop
                 /\ UNCHANGED rtdsTriggered
            ELSE /\ rtdsTriggered' = FALSE
                 /\ pc' = "readUp"
                 /\ UNCHANGED <<sweepIdx, rtdsConnected>>
    /\ UNCHANGED <<main, cfg, now, exch, orderIds, cancelAtMs, rtdClient, upOrder,
                   firstSingleFillAtMs, actedOnSingleFill, mit, obs, acts>>

\* a loop head that lets an iteration start at the deadline itself
LoopHead_AtDeadline ==
    /\ pc = "loopHead"
    /\ IF ~(now <= cancelAtMs)
       THEN /\ ExitLoop
            /\ UNCHANGED rtdsTriggered
       ELSE IF cfg.useRtds /\ rtdClient
            THEN IF ~rtdsTriggered
                 THEN /\ pc' = "idleSleep"
                      /\ UNCHANGED <<rtdsTriggered, sweepIdx, rtdsConnected>>
                 ELSE /\ rtdsTriggered' = FALSE
                      /\ pc' = "readUp"
                      /\ UNCHANGED <<sweepIdx, rtdsConnected>>
            ELSE /\ pc' = "readUp"
                 /\ UNCHANGED <<rtdsTriggered, sweepIdx, rtdsConnected>>
    /\ UNCHANGED <<main, cfg, now, exch, orderIds, cancelAtMs, rtdClient, upOrder,
                   firstSingleFillAtMs, actedOnSingleFill, mit, obs, acts>>

\* while (Date.now() < cancelAtMs), and the RTDS gate
LoopHead ==
    /\ pc = "loopHead"
    /\ IF ~(now < cancelAtMs)
       THEN /\ ExitLoop
            /\ UNCHANGED rtdsTriggered
       ELSE IF cfg.useRtds /\ rtdClient
            THEN IF ~rtdsTriggered
                 THEN /\ pc' = "idleSleep"
                      /\ UNCHANGED <<rtdsTriggered, sweepIdx, rtdsConnected>>
                 ELSE /\ rtdsTriggered' = FALSE
                      /\ pc' = "readUp"
                      /\ UNCHANGED <<sweepIdx, rtdsConnected>>
            ELSE /\ pc' = "readUp"
                 /\ UNCHANGED <<rtdsTriggered, sweepIdx, rtdsConnected>>
    /\ UNCHANGED <<main, cfg, now, exch, orderIds, cancelAtMs, rtdClient, upOrder,
                   firstSingleFillAtMs, actedOnSingleFill, mit, obs, acts>>

\* await sleep(Math.max(POLL_SEC, 3) * 1000); continue
IdleSleep ==
    /\ pc = "idleSleep"
    /\ now' = now + idleSec
    /\ pc' = "loopHead"
    /\ UNCHANGED <<main, cfg, exch, orderIds, cancelAtMs, rtdClient, rtdsConnected,
                   rtdsTriggered, upOrder, firstSingleFillAtMs, actedOnSingleFill,
                   mit, sweepIdx, obs, acts>>

\* const upOrder = await safeGetOrder(client, upResp.orderID)
ReadUp(ok) ==
    /\ pc = "readUp"
    /\ upOrder' = safeGetOrder(ok, exch[UpId])
    /\ pc' = "readDown"
    /\ UNCHANGED <<main, cfg, now, exch, orderIds, cancelAtMs, rtdClient, rtdsConnected,
                   rtdsTriggered, firstSingleFillAtMs, actedOnSingleFill, mit,
                   sweepIdx, obs, acts, main>>

\* a mitigation branch in which policy wait cancels like policy cancel
MitigationPc_WaitCancels(policy) ==
    IF policy = "hedge" THEN "hedgeBook" ELSE "mitCancel"

\* the next await of the mitigation branch, by policy
MitigationPc(policy) ==
    IF policy = "cancel" THEN "mitCancel"
    ELSE IF policy = "hedge" THEN "hedgeBook"
    ELSE "sleep"

\* const downOrder = await safeGetOrder(...), the classification, and the
\* synchronous part of the mitigation branch up to its first await
ReadDown(ok, d) ==
    /\ pc = "readDown"
    /\ now' = now + d
    /\ LET downOrder == safeGetOrder(ok, exch[DownId])
           upMatched == parseMatchedShares(upOrder)
           downMatched == parseMatchedShares(downOrder)
           upOrig == OrElse(parseOriginalShares(upOrder), SIZE)
           downOrig == OrElse(parseOriginalShares(downOrder), SIZE)
           one == oneSome(upMatched, downMatched)
           first == GraceStart(firstSingleFillAtMs, now')
       IN /\ obs' = [n |-> obs.n + 1, up |-> upMatched, upOrig |-> upOrig,
                     down |-> downMatched, downOrig |-> downOrig,
                     firstOneSomeAt |-> IF obs.firstOneSomeAt = NULL /\ (upMatched > 0) # (downMatched > 0)
                                        THEN now' ELSE obs.firstOneSomeAt,
                     seenUp |-> obs.seenUp \/ upMatched > 0]
          /\ IF bothFull(upMatched, upOrig, downMatched, downOrig)
             THEN /\ ExitLoop
                  /\ UNCHANGED <<firstSingleFillAtMs, actedOnSingleFill, mit, acts>>
             ELSE IF MitigationGuard(one, actedOnSingleFill)
                  THEN /\ firstSingleFillAtMs' = first
                       /\ IF GraceElapsed(now', first, cfg.grace)
                          THEN /\ actedOnSingleFill' = TRUE
                               /\ mit' = [NoMit EXCEPT !.side = filledSide(upMatched, downMatched),
                                                       !.missing = missingShares(upMatched, downMatched)]
                               /\ acts' = [acts EXCEPT !.mitCount = @ + 1]
                               /\ pc' = MitigationPc(cfg.policy)
                          ELSE /\ pc' = "sleep"
                               /\ UNCHANGED <<actedOnSingleFill, mit, acts>>
                       /\ UNCHANGED <<sweepIdx, rtdsConnected>>
                  ELSE /\ pc' = "sleep"
                       /\ UNCHANGED <<firstSingleFillAtMs, actedOnSingleFill, mit,
                                      acts, sweepIdx, rtdsConnected>>
    /\ upOrder' = NullOrder
    /\ UNCHANGED <<main, cfg, exch, orderIds, cancelAtMs, rtdClient, rtdsTriggered>>

\* what client.cancelOrder does on the exchange: it succeeds only on an order
\* that is still open, and may fail on any order
CanCancel(id) == exch[id].placed /\ exch[id].live /\ exch[id].matched < exch[id].size

Cancelled(id, ok) == IF ok THEN [exch EXCEPT ![id].live = FALSE] ELSE exch

\* policy cancel: const r = await cancelBestEffort(client, unfilledOrderId)
MitCancel(ok) ==
    /\ pc = "mitCancel"
    /\ ok => CanCancel(unfilledOrderId(mit.side))
    /\ LET id == unfilledOrderId(mit.side)
           r == cancelBestEffort(ok)
       IN /\ exch' = Cancelled(id, ok)
          /\ acts' = [acts EXCEPT !.cancels = Append(@, [id |-> id, phase |-> "mitigation", ok |-> ok]),
                                  !.fatalIn = IF r.thrown THEN "loop" ELSE @]
          /\ pc' = IF r.thrown THEN "fatal" ELSE "sleep"
    /\ UNCHANGED <<main, cfg, now, orderIds, cancelAtMs, rtdClient, rtdsConnected, rtdsTriggered,
                   upOrder, firstSingleFillAtMs, actedOnSingleFill, mit, sweepIdx, obs>>

\* the order books client.getOrderBook can return for the other token at the
\* hedge: the prices of each side, best first
Books == {[bids |-> <<480>>, asks |-> a] :
              a \in {<<>>, <<NAN>>, <<500, 520>>, <<508>>, <<509>>}}

\* parseOrderBookTop: bestBid = ob.bids?.length ? Number(ob.bids[0].price) : null,
\* and the same for bestAsk
parseOrderBookTop(ob) ==
    [bestBid |-> IF Len(ob.bids) = 0 THEN NULL ELSE ob.bids[1],
     bestAsk |-> IF Len(ob.asks) = 0 THEN NULL ELSE ob.asks[1]]

\* policy hedge: const otherBook = await client.getOrderBook(otherToken), which
\* is not inside a try: when it throws, runOneWindow rejects and main().catch
\* ends the process.  Then the evaluation of the best ask.
HedgeBook(ok, ob, d) ==
    /\ pc = "hedgeBook"
    /\ now' = now + d
    /\ IF ~ok
       THEN /\ pc' = "fatal"
            /\ acts' = [acts EXCEPT !.fatalIn = "loop"]
            /\ UNCHANGED mit
       ELSE LET bestAsk == parseOrderBookTop(ob).bestAsk
            IN /\ mit' = [mit EXCEPT !.bookRead = TRUE, !.bestAsk = bestAsk]
               /\ pc' = IF HedgeDecision(bestAsk, maxOtherPrice) = "submit"
                        THEN "hedgeSubmit" ELSE "sleep"
               /\ UNCHANGED acts
    /\ UNCHANGED <<main, cfg, exch, orderIds, cancelAtMs, rtdClient, rtdsConnected,
                   rtdsTriggered, upOrder, firstSingleFillAtMs, actedOnSingleFill,
                   sweepIdx, obs>>

\* the order ids the sweep knows after a hedge order was posted: the code keeps
\* hedgeResp.orderID in a local and never pushes it
IdsAfterHedge(ids, hedgeId) == ids

\* a hedge order priced one tick under the quantized ceiling
HedgeOrder_TickLower(side, missing) ==
    [placed |-> TRUE, token |-> otherToken(side),
     price |-> roundDownToTick(maxOtherPrice, otherTick(side)) - otherTick(side),
     size |-> missing, matched |-> 0, live |-> TRUE, postOnly |-> FALSE]

\* a hedge order submitted with the post-only setting of the legs
HedgeOrder_AsLegs(side, missing) ==
    [placed |-> TRUE, token |-> otherToken(side),
     price |-> roundDownToTick(maxOtherPrice, otherTick(side)),
     size |-> missing, matched |-> 0, live |-> TRUE, postOnly |-> cfg.postOnly]

\* the hedge order: {otherToken, hedgePrice, missingShares, BUY}, GTC, with
\* false for the post-only argument
HedgeOrder(side, missing) ==
    [placed |-> TRUE, token |-> otherToken(side),
     price |-> roundDownToTick(maxOtherPrice, otherTick(side)),
     size |-> missing, matched |-> 0, live |-> TRUE, postOnly |-> FALSE]

\* a hedge whose failure leaves the try
AfterHedge_Rethrows(ok) == IF ok THEN "sleep" ELSE "fatal"

\* try { await createAndPostOrder(...) } catch (e) { console.log(...) }: the
\* iteration goes on to its sleep either way
AfterHedge(ok) == "sleep"

\* a hedge that takes the place of the order of the missing leg
Hedged_ReplacesLeg(ex, side, order) ==
    [ex EXCEPT ![HedgeId] = order, ![unfilledOrderId(side)].live = FALSE]

\* the exchange after it accepted the hedge order: the hedge branch makes no
\* other call, the order of the missing leg is as it was
Hedged(ex, side, order) == [ex EXCEPT ![HedgeId] = order]

\* await client.createAndPostOrder({otherToken, hedgePrice, missingShares, BUY},
\* ..., GTC, undefined, false) inside try / catch
HedgeSubmit(ok) ==
    /\ pc = "hedgeSubmit"
    /\ LET order == HedgeOrder(mit.side, mit.missing)
       IN /\ exch' = IF ok THEN Hedged(exch, mit.side, order) ELSE exch
          /\ orderIds' = IF ok THEN IdsAfterHedge(orderIds, HedgeId) ELSE orderIds
          /\ acts' = [acts EXCEPT !.hedges = Append(@, [token |-> order.token, price |-> order.price,
                                                        size |-> order.size,
                                                        postOnly |-> order.postOnly,
                                                        ok |-> ok])]
    /\ pc' = AfterHedge(ok)
    /\ UNCHANGED <<main, cfg, now, cancelAtMs, rtdClient, rtdsConnected, rtdsTriggered, upOrder,
                   firstSingleFillAtMs, actedOnSingleFill, mit, sweepIdx, obs>>

\* a sleep after which the pending flag of the feed is cleared
Sleep_ClearsFlag ==
    /\ pc = "sleep"
    /\ now' = now + cfg.poll
    /\ pc' = "loopHead"
    /\ rtdsTriggered' = FALSE
    /\ obs' = [obs EXCEPT !.up = 0, !.upOrig = 0, !.down = 0, !.downOrig = 0]
    /\ UNCHANGED <<main, cfg, exch, orderIds, cancelAtMs, rtdClient, rtdsConnected,
                   upOrder, firstSingleFillAtMs, actedOnSingleFill,
                   mit, sweepIdx, acts>>

\* await sleep(POLL_SEC * 1000)
Sleep ==
    /\ pc = "sleep"
    /\ now' = now + cfg.poll
    /\ pc' = "loopHead"
    /\ obs' = [obs EXCEPT !.up = 0, !.upOrig = 0, !.down = 0, !.downOrig = 0]
    /\ UNCHANGED <<main, cfg, exch, orderIds, cancelAtMs, rtdClient, rtdsConnected,
                   rtdsTriggered, upOrder, firstSingleFillAtMs, actedOnSingleFill,
                   mit, sweepIdx, acts>>

\* for (const id of orderIds) { const r = await cancelBestEffort(client, id) }
Sweep(ok) ==
    /\ pc = "sweep"
    /\ sweepIdx <= Len(orderIds)
    /\ ok => CanCancel(orderIds[sweepIdx])
    /\ LET id == orderIds[sweepIdx]
           r == cancelBestEffort(ok)
       IN /\ exch' = Cancelled(id, ok)
          /\ acts' = [acts EXCEPT !.cancels = Append(@, [id |-> id, phase |-> "sweep", ok |-> ok]),
                                  !.fatalIn = IF r.thrown THEN "sweep" ELSE @]
          /\ pc' = IF r.thrown THEN "fatal"
                   ELSE IF sweepIdx = Len(orderIds) THEN "closed" ELSE "sweep"
          /\ sweepIdx' = IF r.thrown THEN sweepIdx ELSE sweepIdx + 1
    /\ UNCHANGED <<main, cfg, now, orderIds, cancelAtMs, rtdClient, rtdsConnected, rtdsTriggered,
                   upOrder, firstSingleFillAtMs, actedOnSingleFill, mit, obs>>

\* ------------------------------------------------------------- environment

InLoop == pc \in {"loopHead", "idleSleep", "readUp", "readDown", "mitCancel",
                  "hedgeBook", "hedgeSubmit", "sleep"}

\* the exchange matches one more share of an open order
Fill(id) ==
    /\ pc \notin {"closed", "fatal"}
    /\ CanCancel(id)
    /\ exch' = [exch EXCEPT ![id].matched = @ + 1]
    /\ UNCHANGED <<main, cfg, now, pc, orderIds, cancelAtMs, rtdClient, rtdsConnected,
                   rtdsTriggered, upOrder, firstSingleFillAtMs, actedOnSingleFill,
                   mit, sweepIdx, obs, acts>>

\* onConnect: the socket is up and the subscriptions are sent
OnConnect ==
    /\ rtdClient /\ ~rtdsConnected /\ InLoop
    /\ rtdsConnected' = TRUE
    /\ UNCHANGED <<main, cfg, now, pc, exch, orderIds, cancelAtMs, rtdClient, rtdsTriggered,
                   upOrder, firstSingleFillAtMs, actedOnSingleFill, mit, sweepIdx,
                   obs, acts>>

Topics == {"clob_user", "activity"}

\* a callback that does not wait for the loop: it starts the reads itself
\* when the loop is asleep
OnMessage_Observes(topic) ==
    /\ rtdsConnected /\ InLoop
    /\ rtdsTriggered' = IF topic = "clob_user" THEN TRUE ELSE rtdsTriggered
    /\ pc' = IF topic = "clob_user" /\ pc \in {"sleep", "idleSleep"} THEN "readUp" ELSE pc
    /\ acts' = [acts EXCEPT !.feedEver = @ \/ topic = "clob_user"]
    /\ UNCHANGED <<main, cfg, now, exch, orderIds, cancelAtMs, rtdClient, rtdsConnected,
                   upOrder, firstSingleFillAtMs, actedOnSingleFill, mit, sweepIdx, obs>>

\* onMessage: if (msg.topic === "clob_user") rtdsTriggered = true
OnMessage(topic) ==
    /\ rtdsConnected /\ InLoop
    /\ rtdsTriggered' = IF topic = "clob_user" THEN TRUE ELSE rtdsTriggered
    /\ acts' = [acts EXCEPT !.feedEver = @ \/ topic = "clob_user"]
    /\ UNCHANGED <<main, cfg, now, pc, exch, orderIds, cancelAtMs, rtdClient, rtdsConnected,
                   upOrder, firstSingleFillAtMs, actedOnSingleFill, mit, sweepIdx, obs>>

Next ==
    \/ LoopHead
    \/ IdleSleep
    \/ \E ok \in BOOLEAN : ReadUp(ok)
    \/ \E ok \in BOOLEAN, d \in Stalls : ReadDown(ok, d)
    \/ \E ok \in BOOLEAN : MitCancel(ok)
    \/ \E ok \in BOOLEAN, ob \in Books, d \in Stalls : HedgeBook(ok, ob, d)
    \/ \E ok \in BOOLEAN : HedgeSubmit(ok)
    \/ Sleep
    \/ \E ok \in BOOLEAN : Sweep(ok)
    \/ \E id \in {UpId, DownId, HedgeId} : Fill(id)
    \/ OnConnect
    \/ \E topic \in Topics : OnMessage(topic)

Spec == Init /\ [][Next]_vars

\* the steps runOneWindow takes itself, whatever its calls return
ProgramStep ==
    \/ LoopHead
    \/ IdleSleep
    \/ \E ok \in BOOLEAN : ReadUp(ok)
    \/ \E ok \in BOOLEAN, d \in Stalls : ReadDown(ok, d)
    \/ \E ok \in BOOLEAN : MitCancel(ok)
    \/ \E ok \in BOOLEAN, ob \in Books, d \in Stalls : HedgeBook(ok, ob, d)
    \/ \E ok \in BOOLEAN : HedgeSubmit(ok)
    \/ Sleep
    \/ \E ok \in BOOLEAN : Sweep(ok)

\* the window with a clock that advances and awaits that all settle: the timer
\* of every sleep fires and every exchange call returns or throws
FairSpec == Spec /\ WF_vars(ProgramStep)

\* --------------------------------------------------- the hedge, every tick
\* tick sizes the exchange gives a market: 0.01 and 0.1
HedgeTicks == {10, 100}

\* a window of policy hedge that polls, for every pair of tick sizes and
\* either post-only setting of the legs
HedgeInit ==
    /\ cfg \in [policy : {"hedge"}, useRtds : {FALSE}, grace : {0}, poll : {2},
                upTick : HedgeTicks, downTick : HedgeTicks, postOnly : BOOLEAN]
    /\ LoopStart

\* the steps of such a window
HedgeNext ==
    \/ LoopHead
    \/ \E ok \in BOOLEAN : ReadUp(ok)
    \/ \E ok \in BOOLEAN, d \in Stalls : ReadDown(ok, d)
    \/ \E ok \in BOOLEAN, ob \in Books, d \in Stalls : HedgeBook(ok, ob, d)
    \/ \E ok \in BOOLEAN : HedgeSubmit(ok)
    \/ Sleep
    \/ \E ok \in BOOLEAN : Sweep(ok)
    \/ \E id \in {UpId, DownId, HedgeId} : Fill(id)

HedgeSpec == HedgeInit /\ [][HedgeNext]_vars

\* ================================================================== main()
\* main() from its arguments to the placement of a window, and the repeat
\* loop.  The monitoring loop and the sweep of a window, which Spec follows
\* step by step, are one step here (RunWindowBody).

\* the two variants of the script that have a repeat mode
Variants == {"ts", "js"}

\* the wall clock when main() starts
StartNows == {880, 900}

\* priceArg !== undefined ? Number(priceArg) : Number(process.env.X ?? dflt)
NumOr(v, dflt) == IF v = NULL THEN dflt ELSE v

\* toNum: the default for a missing value and for one that is not finite
toNum(v, dflt) == IF v = NULL \/ v = NAN THEN dflt ELSE v

Finite(x) == x # NAN

\* if (!Number.isFinite(PRICE) || PRICE <= 0 || PRICE >= 1) throw
ValidPrice(p) == Finite(p) /\ ~(p <= 0) /\ ~(p >= ONE)

ValidDuration(d) == Finite(d) /\ ~(d <= 0)

ValidPoll(p) == Finite(p) /\ ~(p <= 0)

ValidGrace(g) == Finite(g) /\ ~(g < 0)

ValidPolicy(p) == p \in Policies

ValidSignatureType(t) == t \in {0, 1, 2}

\* const pairEdge = 1 - 2 * PRICE
pairEdge(price) == ONE - 2 * price

\* an edge check that compares against the wrong side
EdgeOk_Flipped(price, minEdge) == ~(pairEdge(price) > minEdge)

\* if (pairEdge < MIN_EDGE) throw
EdgeOk(price, minEdge) == ~(pairEdge(price) < minEdge)

\* a size cut off after the sixth decimal instead of rounded to it
computeSizeShares_Truncates(investUsd, price) ==
    IF ~Finite(investUsd) \/ investUsd <= 0 THEN NAN
    ELSE IF ~Finite(price) \/ price <= 0 THEN NAN
    ELSE (investUsd * ONE * Micro) \div price

\* computeSizeShares: Number((investUsd / price).toFixed(6)), with investUsd
\* in whole dollars and the result in 1/1000000 of a share: the quotient
\* rounded to the nearest unit.  NAN stands for the throw.
computeSizeShares(investUsd, price) ==
    IF ~Finite(investUsd) \/ investUsd <= 0 THEN NAN
    ELSE IF ~Finite(price) \/ price <= 0 THEN NAN
    ELSE LET n == investUsd * ONE * Micro
             q == n \div price
             r == n % price
         IN IF 2 * r >= price THEN q + 1 ELSE q

\* const size = sharesArg !== undefined ? Number(sharesArg) : computeSizeShares(...)
\* (--shares is given in whole shares)
SizeOf(a) ==
    IF a.shares # NULL
    THEN IF Finite(a.shares) THEN a.shares * Micro ELSE NAN
    ELSE computeSizeShares(a.invest, a.price)

\* a size check that accepts zero
ValidSize_AllowsZero(size) == Finite(size) /\ ~(size < 0)

\* if (!Number.isFinite(size) || size <= 0) throw
ValidSize(size) == Finite(size) /\ ~(size <= 0)

\* a sanity test that lets a quote of exactly 1 through
isWeird_AllowsOne(x) == x # NULL /\ Finite(x) /\ (x <= 0 \/ x > ONE)

\* a check that takes a missing quote for an unsafe one
isWeird_NullUnsafe(x) == x = NULL \/ (Finite(x) /\ (x <= 0 \/ x >= ONE))

\* isWeird: x !== null && (x <= 0 || x >= 1); every comparison with NaN is false
isWeird(x) == x # NULL /\ Finite(x) /\ (x <= 0 \/ x >= ONE)

\* the quote sanity check of runOneWindow: TRUE when it lets the window go on
QuotesPass(allowWeird, upTop, downTop) ==
    allowWeird \/ ~(\/ isWeird(upTop.bestAsk) \/ isWeird(upTop.bestBid)
                    \/ isWeird(downTop.bestAsk) \/ isWeird(downTop.bestBid))

\* a boundary that is always later than now
ceilToWindowMs_Later(nowMs, windowMinutes) ==
    LET windowMs == windowMinutes * 60
    IN (nowMs \div windowMs + 1) * windowMs

\* ceilToWindowMs: windowMs = windowMinutes * 60 * 1000 (here in seconds) and
\* Math.ceil(nowMs / windowMs) * windowMs
ceilToWindowMs(nowMs, windowMinutes) ==
    LET windowMs == windowMinutes * 60
    IN ((nowMs + windowMs - 1) \div windowMs) * windowMs

\* parseIsoMs: Date.parse(s), NAN standing for the throw.  A timestamp is
\* <<minutes, seconds>> after the epoch of the model; any other text does not
\* parse.
parseIsoMs(s) == IF Len(s) # 2 THEN NAN ELSE s[1] * 60 + s[2]

\* Number(last) of a part of a slug: a part is the number its digits spell,
\* NAN when it is text that is no number, EMPTY when it is the empty string,
\* which Number reads as 0
Number(part) == IF part = EMPTY THEN 0 ELSE part

\* a slug parser that accepts a start of zero
parseMarketStartFromSlugMs_AllowsZero(slug) ==
    LET sec == Number(slug[Len(slug)])
    IN IF ~Finite(sec) \/ sec < 0 THEN NAN ELSE sec

\* parseMarketStartFromSlugMs: the number after the last "-" of the slug, in
\* seconds; NAN stands for the throw.  A slug is the sequence of the parts
\* that split("-") gives.
parseMarketStartFromSlugMs(slug) ==
    LET sec == Number(slug[Len(slug)])
    IN IF ~Finite(sec) \/ sec <= 0 THEN NAN ELSE sec

\* the first window start of the TypeScript variant, NAN standing for a throw
ResolveStartTs(a, t) ==
    IF a.startAt # <<>> THEN parseIsoMs(a.startAt)
    ELSE IF a.alignMarket
         THEN IF a.slug = <<>> THEN NAN ELSE parseMarketStartFromSlugMs(a.slug)
         ELSE IF a.align15 THEN ceilToWindowMs(t, PeriodMin)
              ELSE t

\* the first window start of the JavaScript variant
ResolveStartJs(a, t) ==
    IF a.startAt # <<>> THEN parseIsoMs(a.startAt)
    ELSE IF a.align15 THEN ceilToWindowMs(t, PeriodMin)
         ELSE t

ResolveStart(variant, a, t) ==
    IF variant = "ts" THEN ResolveStartTs(a, t) ELSE ResolveStartJs(a, t)

\* a repeat loop that runs its first window at the resolved start
NextStart_FromResolved(variant, prevStart, t) ==
    IF variant = "ts" THEN (IF main.windows = 0 THEN prevStart ELSE prevStart + PeriodSec)
    ELSE ceilToWindowMs(t, PeriodMin)

\* the start the repeat loop gives the window it is about to run:
\* firstWindowStartMs + 15 * 60 * 1000 in the TypeScript variant,
\* ceilToWindowMs(Date.now(), 15) in the JavaScript variant
NextStart(variant, prevStart, t) ==
    IF variant = "ts" THEN prevStart + PeriodSec ELSE ceilToWindowMs(t, PeriodMin)

\* the first throw of main() before its first await, in the order of the
\* code, or "none"
ConfigError(a) ==
    IF ~a.key THEN "MissingKey"
    ELSE IF ~a.up THEN "MissingUpToken"
    ELSE IF ~a.down THEN "MissingDownToken"
    ELSE IF ~ValidPrice(NumOr(a.price, PRICE)) THEN "InvalidPrice"
    ELSE IF ~ValidDuration(a.duration) THEN "InvalidDuration"
    ELSE IF ~ValidPoll(toNum(a.poll, DefaultPollSec)) THEN "InvalidPoll"
    ELSE IF ~ValidGrace(toNum(a.grace, 0)) THEN "InvalidGrace"
    ELSE IF ~ValidPolicy(a.policy) THEN "InvalidPolicy"
    ELSE IF ~ValidSignatureType(a.sigType) THEN "InvalidSignatureType"
    ELSE IF ~EdgeOk(NumOr(a.price, PRICE), toNum(a.minEdge, MIN_EDGE)) THEN "EdgeTooSmall"
    ELSE "none"

\* the arguments and environment of a run.  key, up, down: the value is a
\* non-empty string.  NULL: the option is not given.
DefaultArgs ==
    [key |-> TRUE, up |-> TRUE, down |-> TRUE, price |-> NULL, invest |-> 1,
     shares |-> NULL, duration |-> DurationSec, poll |-> 2, grace |-> 0,
     policy |-> "hedge", sigType |-> 0, minEdge |-> NULL, allowWeird |-> FALSE,
     useRtds |-> FALSE, startAt |-> <<>>, alignMarket |-> FALSE, slug |-> <<>>,
     align15 |-> FALSE, repeat |-> FALSE]

\* --start-at: absent, unparsable, 600 s (in the past), 950 s
StartAts == {<<>>, <<NAN>>, <<10, 0>>, <<15, 50>>}

\* --market-slug: absent, btc-updown-15-x, btc-updown-x-1800, btc-0, btc-
Slugs == {<<>>, <<NAN, NAN, 15, NAN>>, <<NAN, NAN, NAN, 1800>>, <<NAN, 0>>,
          <<NAN, EMPTY>>}

\* every combination of the start options and of the mode
StartArgs ==
    {[DefaultArgs EXCEPT !.startAt = s, !.alignMarket = am, !.slug = sl,
                         !.align15 = al, !.repeat = r] :
        s \in StartAts, am \in BOOLEAN, sl \in Slugs, al \in BOOLEAN, r \in BOOLEAN}

\* one argument away from the default, in either mode
OtherArgs ==
    UNION {
        {[a EXCEPT !.key = FALSE], [a EXCEPT !.up = FALSE], [a EXCEPT !.down = FALSE]}
        \cup {[a EXCEPT !.price = p] : p \in {NAN, 0, PRICE, 499, ONE}}
        \cup {[a EXCEPT !.duration = d] : d \in {NAN, 0, PeriodSec + 100}}
        \cup {[a EXCEPT !.poll = x] : x \in {NULL, 0}}
        \cup {[a EXCEPT !.grace = x] : x \in {NULL, -3}}
        \cup {[a EXCEPT !.policy = x] : x \in {"wait", "cancel", "sell"}}
        \cup {[a EXCEPT !.sigType = x] : x \in {1, 2, 3, NAN}}
        \cup {[a EXCEPT !.shares = x] : x \in {NAN, 0, SIZE}}
        \cup {[a EXCEPT !.invest = x] : x \in {NAN, 0}}
        \cup {[a EXCEPT !.allowWeird = TRUE], [a EXCEPT !.useRtds = TRUE]}
        : a \in {[DefaultArgs EXCEPT !.repeat = r] : r \in BOOLEAN}}

\* budgets and prices whose quotient has more than six decimals, and an
\* explicit share count beside a budget that is no budget
BudgetArgs ==
    {[DefaultArgs EXCEPT !.invest = u, !.price = p] : u \in {1, 2}, p \in {70, 333, 490}}
    \cup {[DefaultArgs EXCEPT !.shares = SIZE, !.invest = u] : u \in {NAN, 0}}

Args == StartArgs \cup OtherArgs \cup BudgetArgs

NoCfg == [policy |-> "", useRtds |-> FALSE, grace |-> 0, poll |-> 0,
          upTick |-> 0, downTick |-> 0, postOnly |-> TRUE]

NoTop == [bestBid |-> NULL, bestAsk |-> NULL]

\* the state when main() is entered
MainInit ==
    /\ now \in StartNows
    /\ \E v \in Variants, a \in Args :
          /\ v = "js" => ~a.alignMarket
          /\ main = [variant |-> v, argv |-> a, startedAt |-> now, fatal |-> "none",
                     clients |-> 0, resolvedStartMs |-> NULL,
                     firstWindowStartMs |-> NULL,
                     windowStartMs |-> NULL, windows |-> 0, size |-> 0,
                     upTop |-> NoTop, downTop |-> NoTop, trace |-> <<>>,
                     posts |-> <<>>, quoteMoved |-> FALSE, prevActed |-> FALSE]
    /\ pc = "main"
    /\ cfg = NoCfg
    /\ exch = [i \in {UpId, DownId, HedgeId} |-> NoOrder]
    /\ orderIds = <<>>
    /\ cancelAtMs = NULL
    /\ rtdClient = FALSE
    /\ rtdsConnected = FALSE
    /\ rtdsTriggered = FALSE
    /\ upOrder = NullOrder
    /\ firstSingleFillAtMs = NULL
    /\ actedOnSingleFill = FALSE
    /\ mit = NoMit
    /\ sweepIdx = 0
    /\ obs = NoObs
    /\ acts = NoActs

\* the variables of the monitoring loop, which placement does not touch
loopVars == <<rtdsConnected, rtdsTriggered, upOrder, firstSingleFillAtMs,
              actedOnSingleFill, mit, sweepIdx, obs, acts>>

Fatal(err) == /\ pc' = "fatal" /\ main' = [main EXCEPT !.fatal = err]

\* main() up to its first await: required values, validation, the pair-edge
\* check, the wallet, the resolution of the first start, the repeat loop's
\* first nextStart, and runOneWindow up to await createOrDeriveApiKey()
MainStart ==
    /\ pc = "main"
    /\ LET a == main.argv
           err == ConfigError(a)
           first == ResolveStart(main.variant, a, now)
           start == IF a.repeat THEN NextStart(main.variant, first, now) ELSE first
       IN IF err # "none"
          THEN Fatal(err) /\ UNCHANGED cfg
          ELSE IF ~Finite(first)
               THEN Fatal("InvalidStart") /\ UNCHANGED cfg
               ELSE /\ cfg' = [policy |-> a.policy, useRtds |-> a.useRtds,
                               grace |-> toNum(a.grace, DefaultGraceSec),
                               poll |-> toNum(a.poll, DefaultPollSec),
                               upTick |-> 0, downTick |-> 0, postOnly |-> TRUE]
                    /\ main' = [main EXCEPT
                                  !.resolvedStartMs = first,
                                  !.firstWindowStartMs =
                                      IF a.repeat /\ main.variant = "ts" THEN start ELSE first,
                                  !.windowStartMs = start,
                                  !.windows = 1,
                                  !.clients = 1]
                    /\ pc' = "creds"
    /\ UNCHANGED <<now, exch, orderIds, cancelAtMs, rtdClient, loopVars>>

\* await bootstrapClient.createOrDeriveApiKey(), then the authenticated client
DeriveCreds(ok) ==
    /\ pc = "creds"
    /\ IF ok
       THEN /\ pc' = "marketUp"
            /\ main' = [main EXCEPT !.clients = @ + 1]
       ELSE Fatal("CredsFailed")
    /\ UNCHANGED <<cfg, now, exch, orderIds, cancelAtMs, rtdClient, loopVars>>

\* const upMarket = await client.getMarket(UP_TOKEN_ID)
GetMarketUp(ok, tick) ==
    /\ pc = "marketUp"
    /\ IF ok
       THEN /\ pc' = "marketDown"
            /\ cfg' = [cfg EXCEPT !.upTick = tick]
            /\ UNCHANGED main
       ELSE Fatal("MarketFailed") /\ UNCHANGED cfg
    /\ UNCHANGED <<now, exch, orderIds, cancelAtMs, rtdClient, loopVars>>

\* const downMarket = await client.getMarket(DOWN_TOKEN_ID), the two prices
\* and the size
GetMarketDown(ok, tick) ==
    /\ pc = "marketDown"
    /\ LET size == SizeOf([main.argv EXCEPT !.price = NumOr(@, PRICE)])
       IN IF ~ok
          THEN Fatal("MarketFailed") /\ UNCHANGED cfg
          ELSE /\ cfg' = [cfg EXCEPT !.downTick = tick]
               /\ IF ~ValidSize(size)
                  THEN Fatal("InvalidSize")
                  ELSE /\ pc' = "bookUp"
                       /\ main' = [main EXCEPT !.size = size,
                                                !.trace = <<"metadata", "size">>]
    /\ UNCHANGED <<now, exch, orderIds, cancelAtMs, rtdClient, loopVars>>

\* the order books client.getOrderBook can return before placement
PlaceBooks ==
    {[bids |-> <<>>, asks |-> <<>>],
     [bids |-> <<480, 470>>, asks |-> <<500, 520>>],
     [bids |-> <<0>>, asks |-> <<500>>],
     [bids |-> <<480>>, asks |-> <<ONE>>],
     [bids |-> <<NAN>>, asks |-> <<500>>]}

\* const upBook = await client.getOrderBook(UP_TOKEN_ID)
GetBookUp(ok, ob) ==
    /\ pc = "bookUp"
    /\ IF ok
       THEN /\ pc' = "bookDown"
            /\ main' = [main EXCEPT !.upTop = parseOrderBookTop(ob)]
       ELSE Fatal("BookFailed")
    /\ UNCHANGED <<cfg, now, exch, orderIds, cancelAtMs, rtdClient, loopVars>>

\* a window that never waits for its start
WaitNeeded_Never(delay) == FALSE

\* if (delay > 0) await sleep(delay)
WaitNeeded(delay) == delay > 0

\* const downBook = await client.getOrderBook(DOWN_TOKEN_ID), the quote sanity
\* check, and const delay = args.windowStartMs - Date.now()
GetBookDown(ok, ob, d) ==
    /\ pc = "bookDown"
    /\ now' = now + d
    /\ IF ~ok
       THEN Fatal("BookFailed")
       ELSE LET downTop == parseOrderBookTop(ob)
                wait == WaitNeeded(main.windowStartMs - now')
            IN IF ~QuotesPass(main.argv.allowWeird, main.upTop, downTop)
               THEN /\ pc' = "fatal"
                    /\ main' = [main EXCEPT !.fatal = "WeirdQuotes", !.downTop = downTop]
               ELSE /\ pc' = IF wait THEN "waitStart" ELSE "postUp"
                    /\ main' = [main EXCEPT
                                  !.downTop = downTop,
                                  !.trace = IF wait THEN Append(@, "quotes")
                                            ELSE @ \o <<"quotes", "wait">>]
    /\ UNCHANGED <<cfg, exch, orderIds, cancelAtMs, rtdClient, loopVars>>

\* a wait after which the books are read and checked again
AfterWait_Rechecks == "bookUp"

\* after if (delay > 0) await sleep(delay) comes the UP submission: the books
\* are not read a second time
AfterWait == "postUp"

\* await sleep(delay): the timer fires at the window start, or later
WaitStart(d) ==
    /\ pc = "waitStart"
    /\ now' = main.windowStartMs + d
    /\ pc' = AfterWait
    /\ main' = [main EXCEPT !.trace = Append(@, "wait")]
    /\ UNCHANGED <<cfg, exch, orderIds, cancelAtMs, rtdClient, loopVars>>

\* the exchange between the quote check and the first submission: a best bid
\* or best ask of one of the two books moves to 0 or to 1
QuoteMoves ==
    /\ pc \in {"waitStart", "postUp"}
    /\ ~main.quoteMoved
    /\ main' = [main EXCEPT !.quoteMoved = TRUE]
    /\ UNCHANGED <<pc, cfg, now, exch, orderIds, cancelAtMs, rtdClient, loopVars>>

\* a submission whose failure is swallowed
LegPc_Swallow(ok, next) == next

\* await client.createAndPostOrder(...) of a leg is in no try: a rejection
\* leaves runOneWindow and main()
LegPc(ok, next) == IF ok THEN next ELSE "fatal"

\* the call that submits a leg, as the history keeps it
Post(leg, ok) ==
    [leg |-> leg, at |-> now, start |-> main.windowStartMs, ok |-> ok,
     window |-> main.windows, quoteMoved |-> main.quoteMoved]

\* const upResp = await client.createAndPostOrder({UP ...}); orderIds.push(...)
PostUp(ok, d) ==
    /\ pc = "postUp"
    /\ now' = now + d
    /\ LET price == roundDownToTick(NumOr(main.argv.price, PRICE), cfg.upTick)
           order == [LegOrder("UP", price, cfg.postOnly) EXCEPT !.size = main.size]
       IN /\ exch' = IF ok THEN [exch EXCEPT ![UpId] = order] ELSE exch
          /\ orderIds' = IF ok THEN Append(orderIds, UpId) ELSE orderIds
    /\ pc' = LegPc(ok, "postDown")
    /\ main' = [main EXCEPT !.posts = Append(@, Post("UP", ok)),
                            !.trace = Append(@, "UP"),
                            !.upTop = NoTop, !.downTop = NoTop,
                            !.fatal = IF pc' = "fatal" THEN "PostUpFailed" ELSE @]
    /\ UNCHANGED <<cfg, cancelAtMs, rtdClient, loopVars>>

\* const downResp = await client.createAndPostOrder({DOWN ...}), the push,
\* const cancelAtMs = Date.now() + DURATION_MIN * 60 * 1000, and the RTDS
\* client (rtd: its construction did not throw), up to the head of the loop
PostDown(ok, d, rtd) ==
    /\ pc = "postDown"
    /\ rtd => cfg.useRtds
    /\ now' = now + d
    /\ LET price == roundDownToTick(NumOr(main.argv.price, PRICE), cfg.downTick)
           order == [LegOrder("DOWN", price, cfg.postOnly) EXCEPT !.size = main.size]
       IN /\ exch' = IF ok THEN [exch EXCEPT ![DownId] = order] ELSE exch
          /\ orderIds' = IF ok THEN Append(orderIds, DownId) ELSE orderIds
    /\ pc' = LegPc(ok, "loopHead")
    /\ cancelAtMs' = IF pc' = "loopHead" THEN now' + main.argv.duration ELSE cancelAtMs
    /\ rtdClient' = (pc' = "loopHead" /\ rtd)
    /\ main' = [main EXCEPT !.posts = Append(@, Post("DOWN", ok)),
                            !.trace = Append(@, "DOWN"),
                            !.quoteMoved = FALSE,
                            !.fatal = IF pc' = "fatal" THEN "PostDownFailed" ELSE @]
    /\ UNCHANGED <<cfg, loopVars>>

\* how long the monitoring loop and the sweep of a window can take: a
\* both-full exit at once, the duration, the duration and a late last iteration
WindowTimes(duration) == {1, duration, duration + 1}

\* the monitoring loop and the closing sweep of the window, from the head of
\* the loop to the return of runOneWindow (or to the throw of the hedge
\* branch's book read); acted: the window saw a single fill and acted on it,
\* so that it ends with its timer and its latch set, and with the flag of the
\* feed set when it had a feed
RunWindowBody(e, thrown, acted) ==
    /\ pc = "loopHead"
    /\ now' = now + e
    /\ IF thrown
       THEN Fatal("LoopThrow")
       ELSE pc' = "closed" /\ UNCHANGED main
    /\ firstSingleFillAtMs' = IF acted THEN now ELSE NULL
    /\ actedOnSingleFill' = acted
    /\ rtdsTriggered' = (acted /\ rtdClient)
    /\ rtdClient' = FALSE
    /\ UNCHANGED <<cfg, exch, orderIds, cancelAtMs, rtdsConnected, upOrder, mit, sweepIdx,
                   obs, acts>>

\* a window that goes on with the locals of the window before it
NewLocals_Kept(old) == old

\* the locals of a call of runOneWindow: const orderIds = [], let
\* rtdsTriggered = false, let firstSingleFillAtMs = null, let
\* actedOnSingleFill = false
NewLocals(old) ==
    [orderIds |-> <<>>, rtdsTriggered |-> FALSE, firstSingleFillAtMs |-> NULL,
     actedOnSingleFill |-> FALSE]

\* a repeat loop that does not wait for the window it started
WindowAwaited_NoAwait(p) == p \in {"loopHead", "closed"}

\* await runOneWindow(...): main() goes on when the window has returned
WindowAwaited(p) == p = "closed"

\* after await runOneWindow: "Done." without --repeat; with it the next turn
\* of while (true), up to await createOrDeriveApiKey() of the next window,
\* whose locals are new
WindowReturns ==
    /\ WindowAwaited(pc)
    /\ IF ~main.argv.repeat
       THEN /\ pc' = "done"
            /\ UNCHANGED <<main, cfg, exch, orderIds, cancelAtMs, rtdsTriggered,
                           firstSingleFillAtMs, actedOnSingleFill>>
       ELSE /\ main.windows < MaxWindows
            /\ LET nextStart == NextStart(main.variant, main.firstWindowStartMs, now)
               IN main' = [main EXCEPT
                             !.firstWindowStartMs =
                                 IF main.variant = "ts" THEN nextStart ELSE @,
                             !.windowStartMs = nextStart,
                             !.windows = @ + 1,
                             !.clients = @ + 1,
                             !.prevActed = actedOnSingleFill,
                             !.size = 0, !.trace = <<>>, !.posts = <<>>]
            /\ pc' = "creds"
            /\ cfg' = [cfg EXCEPT !.upTick = 0, !.downTick = 0]
            /\ exch' = [i \in {UpId, DownId, HedgeId} |-> NoOrder]
            /\ LET new == NewLocals([orderIds |-> orderIds,
                                     rtdsTriggered |-> rtdsTriggered,
                                     firstSingleFillAtMs |-> firstSingleFillAtMs,
                                     actedOnSingleFill |-> actedOnSingleFill])
               IN /\ orderIds' = new.orderIds
                  /\ rtdsTriggered' = new.rtdsTriggered
                  /\ firstSingleFillAtMs' = new.firstSingleFillAtMs
                  /\ actedOnSingleFill' = new.actedOnSingleFill
            /\ cancelAtMs' = NULL
    /\ UNCHANGED <<now, rtdClient, rtdsConnected, upOrder, mit, sweepIdx, obs, acts>>

MainNext ==
    \/ MainStart
    \/ \E ok \in BOOLEAN : DeriveCreds(ok)
    \/ \E ok \in BOOLEAN, tick \in TickSizes : GetMarketUp(ok, tick)
    \/ \E ok \in BOOLEAN, tick \in TickSizes : GetMarketDown(ok, tick)
    \/ \E ok \in BOOLEAN, ob \in PlaceBooks : GetBookUp(ok, ob)
    \/ \E ok \in BOOLEAN, ob \in PlaceBooks, d \in Stalls : GetBookDown(ok, ob, d)
    \/ \E d \in Stalls : WaitStart(d)
    \/ QuoteMoves
    \/ \E ok \in BOOLEAN, d \in Stalls : PostUp(ok, d)
    \/ \E ok \in BOOLEAN, d \in Stalls, rtd \in BOOLEAN : PostDown(ok, d, rtd)
    \/ \E thrown \in BOOLEAN, acted \in BOOLEAN, e \in WindowTimes(main.argv.duration) :
           RunWindowBody(e, thrown, acted)
    \/ WindowReturns

\* main() from its arguments, window after window
MainSpec == MainInit /\ [][MainNext]_vars

\* ============================================================= the helpers
\* roundDownToTick and ceilToWindowMs called on their own, over more
\* arguments than the runs above give them.

\* prices and tick sizes as whole numbers of one unit, small ones and ones
\* large enough for the 1e-9 of the snap to be a unit or more (a price half
\* of 1e-9 of the tick below the tick, and one and a half); tick sizes that
\* are not a positive number
QuantizePrices ==
    {0, 1, 9, 10, 11, 490, 499, 508, 999, 1000, 1999999997, 1999999999,
     2000000000, 2000000001}

QuantizeTicks == {NAN, -10, 0, 10, 100, 2000000000}

\* the clock in seconds, and windows of 1, 2 and 15 minutes
ClockValues == 0..130 \cup {899, 900, 901, 1799, 1800, 1801}

WindowMinutes == {1, 2, 15}

\* a call about to be made
CalcInit ==
    /\ pc = "call"
    /\ main \in [fn : {"roundDownToTick"}, x : QuantizePrices, y : QuantizeTicks,
                 out : {NULL}]
               \cup [fn : {"ceilToWindowMs"}, x : ClockValues, y : WindowMinutes,
                     out : {NULL}]
    /\ now = 0
    /\ cfg = NoCfg
    /\ exch = [i \in {UpId, DownId, HedgeId} |-> NoOrder]
    /\ orderIds = <<>>
    /\ cancelAtMs = NULL
    /\ rtdClient = FALSE
    /\ rtdsConnected = FALSE
    /\ rtdsTriggered = FALSE
    /\ upOrder = NullOrder
    /\ firstSingleFillAtMs = NULL
    /\ actedOnSingleFill = FALSE
    /\ mit = NoMit
    /\ sweepIdx = 0
    /\ obs = NoObs
    /\ acts = NoActs

\* const upPrice = roundDownToTick(PRICE, upTickSize), and the like
CallRoundDownToTick ==
    /\ pc = "call" /\ main.fn = "roundDownToTick"
    /\ main' = [main EXCEPT !.out = roundDownToTick(main.x, main.y)]
    /\ pc' = "returned"
    /\ UNCHANGED <<cfg, now, exch, orderIds, cancelAtMs, rtdClient, loopVars>>

\* firstWindowStartMs = ceilToWindowMs(Date.now(), 15), and the like
CallCeilToWindowMs ==
    /\ pc = "call" /\ main.fn = "ceilToWindowMs"
    /\ main' = [main EXCEPT !.out = ceilToWindowMs(main.x, main.y)]
    /\ pc' = "returned"
    /\ UNCHANGED <<cfg, now, exch, orderIds, cancelAtMs, rtdClient, loopVars>>

CalcNext == CallRoundDownToTick \/ CallCeilToWindowMs

CalcSpec == CalcInit /\ [][CalcNext]_vars

\* ------------------------------------------------------------------ claims

\* what the properties read off the history
MitigationCancels == SelectSeq(acts.cancels, LAMBDA c : c.phase = "mitigation")
SweepCancels == SelectSeq(acts.cancels, LAMBDA c : c.phase = "sweep")
SweepIds == [i \in 1..Len(SweepCancels) |-> SweepCancels[i].id]
\* the step is the end of an observation (both legs read and classified)
ObservationStep == obs'.n = obs.n + 1
\* what the observation read
BothFullRead == obs.up >= obs.upOrig /\ obs.down >= obs.downOrig /\ obs.upOrig > 0
OneSomeRead == (obs.up > 0) # (obs.down > 0)
\* the step is a mitigation call on the exchange
MitigationCallStep ==
    \/ Len(acts'.hedges) > Len(acts.hedges)
    \/ Len(acts'.cancels) > Len(acts.cancels) /\ pc # "sweep"

\* C1: at most one mitigation is executed in a window: the latch never goes
\* back to false, no observation enters the mitigation branch once it is set,
\* and the mitigation calls on the exchange number at most one.
C1_AtMostOneMitigation ==
    [][/\ actedOnSingleFill => actedOnSingleFill' /\ acts'.mitCount = acts.mitCount
       /\ acts'.mitCount <= 1
       /\ Len(acts'.hedges) + Len(MitigationCancels') <= 1]_vars

\* a later observation is under way with the latch set and the pair still
\* filled on one side only
C1_Witness ==
    /\ actedOnSingleFill /\ acts.mitCount = 1 /\ pc = "readDown"
    /\ exch[UpId].matched > 0 /\ exch[DownId].matched = 0

\* C2: when the window has closed, every order submitted in it, the hedge
\* order included, has received a cancel in the closing sweep.
C2_SweepCancelsEverySubmittedId ==
    pc = "closed" =>
        \A id \in DOMAIN exch :
            exch[id].placed => \E i \in 1..Len(SweepCancels) : SweepCancels[i].id = id

\* C3: the sweep attempts the ids of the order-id list once each and in list
\* order whatever the cancels return, and ends the window normally.
C3_SweepNeverAborts ==
    /\ acts.fatalIn # "sweep"
    /\ pc = "sweep" => SweepIds = SubSeq(orderIds, 1, sweepIdx - 1)
    /\ pc = "closed" => SweepIds = orderIds
    /\ pc \notin {"sweep", "closed"} => SweepCancels = <<>>

\* the window closed although the first cancel of the sweep failed
C3_Witness ==
    /\ pc = "closed" /\ Len(SweepCancels) = 2
    /\ ~SweepCancels[1].ok /\ SweepCancels[2].ok

\* C4: an observation that reads both legs full leaves the loop in that very
\* step without mitigation, and once the sweep has begun there is no read, no
\* mitigation and no order submission any more.
C4_BothFullStops ==
    [][/\ ObservationStep /\ BothFullRead' =>
            pc' = "sweep" /\ acts' = acts /\ actedOnSingleFill' = actedOnSingleFill
       /\ pc \in {"sweep", "closed"} =>
            /\ pc' \in {"sweep", "closed"}
            /\ obs' = obs /\ acts'.mitCount = acts.mitCount
            /\ acts'.hedges = acts.hedges /\ MitigationCancels' = MitigationCancels]_vars

\* the loop was left before the deadline by a both-full observation
C4_Witness ==
    /\ pc = "sweep" /\ now < cancelAtMs
    /\ obs.up = SIZE /\ obs.down = SIZE /\ acts.mitCount = 0

\* C5: under policy hedge the mitigating observation that finds the other
\* leg's best ask at or below 1 - price - minHedgeEdge is followed by exactly
\* one hedge submission, for the token of the leg that had no match, sized
\* |upMatched - downMatched| as that observation read them, not before the
\* grace period is over; no second hedge submission is ever made.
C5_ExactlyOneHedge ==
    [][/\ Len(acts'.hedges) <= 1
       /\ Len(acts'.hedges) > Len(acts.hedges) =>
            /\ cfg.policy = "hedge"
            /\ OneSomeRead
            /\ acts'.hedges[1].token = (IF obs.up > 0 THEN "DOWN" ELSE "UP")
            /\ acts'.hedges[1].size =
                 (IF obs.up >= obs.down THEN obs.up - obs.down ELSE obs.down - obs.up)
            /\ mit.bestAsk >= 0 /\ mit.bestAsk <= ONE - PRICE - MIN_HEDGE_EDGE
            /\ now >= obs.firstOneSomeAt + cfg.grace
       /\ (pc = "hedgeBook" /\ mit'.bookRead
             /\ mit'.bestAsk >= 0 /\ mit'.bestAsk <= ONE - PRICE - MIN_HEDGE_EDGE)
            => pc' = "hedgeSubmit"
       /\ (pc = "hedgeSubmit" /\ pc' # "hedgeSubmit") => Len(acts'.hedges) = 1]_vars

\* the hedge order is on the exchange and a later observation is under way
\* with the pair still filled on one side
C5_Witness ==
    /\ Len(acts.hedges) = 1 /\ acts.hedges[1].ok /\ exch[HedgeId].placed
    /\ pc = "readDown" /\ exch[UpId].matched = 0 /\ exch[DownId].matched > 0

C7_MitigatesWhateverTheClassification ==
    [][(/\ ObservationStep
        /\ obs'.up = exch[UpId].matched /\ obs'.down = exch[DownId].matched
        /\ firstSingleFillAtMs # NULL /\ ~actedOnSingleFill
        /\ now' - firstSingleFillAtMs >= cfg.grace
        /\ ~BothFullRead')
       => actedOnSingleFill' /\ acts'.mitCount = acts.mitCount + 1]_vars

\* C7 as amended: such an observation mitigates exactly once if it reads
\* exactly one leg with a nonzero match, and does not mitigate if it reads a
\* nonzero match on both legs or on neither.
C7_MitigatesIfStillOneSided ==
    [][(/\ ObservationStep
        /\ ~actedOnSingleFill
        /\ ~BothFullRead')
       => LET first == IF firstSingleFillAtMs = NULL THEN now' ELSE firstSingleFillAtMs
              due == now' - first >= cfg.grace
          IN IF OneSomeRead' /\ due
             THEN actedOnSingleFill' /\ acts'.mitCount = acts.mitCount + 1
             ELSE ~actedOnSingleFill' /\ acts'.mitCount = acts.mitCount]_vars

\* a mitigation made by an observation later than the one that started a
\* grace timer of more than zero seconds
C7_Witness ==
    /\ actedOnSingleFill /\ acts.mitCount = 1 /\ cfg.grace > 0
    /\ pc \in {"mitCancel", "hedgeBook", "sleep"}
    /\ now >= firstSingleFillAtMs + cfg.grace

\* C8: a mitigation call (a cancel before the sweep, a hedge submission) is
\* never made before the first observation that read exactly one leg with a
\* nonzero match plus graceSeconds, and never without such an observation.
C8_NoMitigationBeforeGrace ==
    [][(MitigationCallStep \/ acts'.mitCount > acts.mitCount) =>
            /\ obs'.firstOneSomeAt # NULL
            /\ now' >= obs'.firstOneSomeAt + cfg.grace]_vars

\* a leg was cancelled by the mitigation step after a grace period of more
\* than zero seconds
C8_Witness ==
    /\ cfg.grace > 0 /\ Len(MitigationCancels) = 1
    /\ now >= obs.firstOneSomeAt + cfg.grace

\* C9: with the RTDS client built and a window longer than the idle interval,
\* the window does not close without an observation, even if no feed event
\* ever arrived.
C9_ObservesAfterIdleInterval ==
    (/\ cfg.useRtds /\ rtdClient /\ ~acts.feedEver
     /\ idleSec < DurationSec
     /\ pc \in {"sweep", "closed"})
    => obs.n > 0

\* C10: no failure of an exchange call made in the monitoring loop ends the
\* window without its closing sweep.
C10_LoopFailuresAbsorbed == pc # "fatal" /\ acts.fatalIn # "loop"

\* C20: a failed fill-status read is no new information.  Stated for the UP
\* leg: when an earlier read has returned a nonzero match of UP, an observation
\* whose UP read fails and whose DOWN read returns a nonzero match knows a
\* match on both legs, so it neither starts the grace timer nor mitigates.
C20_FailedReadIsNoInformation ==
    [][(/\ ObservationStep
        /\ ~upOrder.found /\ obs.seenUp
        /\ obs'.down > 0)
       => /\ firstSingleFillAtMs' = firstSingleFillAtMs
          /\ actedOnSingleFill' = actedOnSingleFill
          /\ acts'.mitCount = acts.mitCount]_vars

\* C11: the deadline is tested at the head of every iteration, with or without
\* the RTDS gate: the loop is left for the sweep exactly by a loop head that
\* finds the clock at or past the deadline (or by a both-full observation), no
\* iteration starts past the deadline, and with the clock advancing and every
\* await settling the window closes, unless the one exchange call whose
\* exception escapes the loop (the hedge book read) has thrown.
C11_WindowTerminates ==
    /\ [][/\ (pc = "loopHead" /\ pc' # "loopHead") =>
                ((pc' = "sweep") <=> (now >= cancelAtMs))
          /\ (pc # "sweep" /\ pc' = "sweep") =>
                (pc = "loopHead" \/ (ObservationStep /\ BothFullRead'))]_vars
    /\ <>(pc = "closed" \/ acts.fatalIn = "loop")

\* a window in event-feed mode has closed without any fill, any feed event
\* and any observation
C11_Witness ==
    /\ pc = "closed" /\ cfg.useRtds /\ rtdClient /\ ~acts.feedEver
    /\ exch[UpId].matched = 0 /\ exch[DownId].matched = 0 /\ obs.n = 0
    /\ now >= cancelAtMs

\* what the properties of main() read off the state
OrdersSubmitted == {i \in DOMAIN exch : exch[i].placed}
SubmissionCalls == Len(main.posts)

\* C12: no order is submitted when 1 - 2 * price is below minEdge: the run
\* with price 0.499 and minEdge 0.005 ends in the pair-edge error before any
\* client is built, with no submission call made; the run with price 0.49 does
\* not end in that error.
C12_NoOrderBelowMinEdge ==
    LET price == NumOr(main.argv.price, PRICE)
        minEdge == toNum(main.argv.minEdge, MIN_EDGE)
        valid == ConfigError([main.argv EXCEPT !.price = PRICE]) = "none"
    IN /\ (valid /\ price > 0 /\ price < ONE /\ ONE - 2 * price < minEdge /\ pc # "main") =>
            /\ pc = "fatal" /\ main.fatal = "EdgeTooSmall"
            /\ main.clients = 0 /\ main.windows = 0
            /\ SubmissionCalls = 0 /\ OrdersSubmitted = {}
       /\ (SubmissionCalls > 0 \/ OrdersSubmitted # {}) => ONE - 2 * price >= minEdge
       /\ (price = 490 /\ minEdge = 5) => main.fatal # "EdgeTooSmall"

\* the run with price 0.499 and minEdge 0.005 has been refused
C12_Witness ==
    /\ pc = "fatal" /\ main.fatal = "EdgeTooSmall"
    /\ main.argv.price = 499 /\ toNum(main.argv.minEdge, MIN_EDGE) = 5
    /\ SubmissionCalls = 0

\* an invalid configuration, as the claim lists it, on the values the run
\* works with (an absent or non-numeric poll or grace is its default)
InvalidParameters(a) ==
    LET price == NumOr(a.price, PRICE)
        poll == toNum(a.poll, DefaultPollSec)
        grace == toNum(a.grace, DefaultGraceSec)
    IN \/ ~a.key \/ ~a.up \/ ~a.down
       \/ price = NAN \/ price <= 0 \/ price >= ONE
       \/ a.duration = NAN \/ a.duration <= 0
       \/ poll <= 0
       \/ grace < 0
       \/ a.policy \notin {"wait", "cancel", "hedge"}
       \/ a.sigType \notin {0, 1, 2}
InvalidShareSize(a) ==
    LET price == NumOr(a.price, PRICE)
        size == IF a.shares # NULL THEN a.shares
                ELSE IF a.invest = NAN \/ a.invest <= 0 \/ price = NAN \/ price <= 0 THEN NAN
                ELSE (2 * a.invest * ONE + price) \div (2 * price)
    IN size = NAN \/ size <= 0

\* C15: a run with an invalid configuration makes no submission call and
\* leaves no order on the exchange: an invalid key, token, price, duration,
\* poll, grace, policy or signature type aborts main() before any client is
\* built, and an invalid share size aborts the first window at its size check,
\* after the credential and metadata calls and before the book reads.
C15_InvalidConfigurationAborts ==
    /\ (InvalidParameters(main.argv) \/ InvalidShareSize(main.argv)) =>
            /\ SubmissionCalls = 0 /\ OrdersSubmitted = {}
            /\ pc \in {"main", "fatal", "creds", "marketUp", "marketDown"}
            /\ main.windows <= 1
    /\ InvalidParameters(main.argv) =>
            /\ pc \in {"main", "fatal"}
            /\ main.clients = 0 /\ main.windows = 0
            /\ pc = "fatal" => main.fatal \in
                   {"MissingKey", "MissingUpToken", "MissingDownToken", "InvalidPrice",
                    "InvalidDuration", "InvalidPoll", "InvalidGrace", "InvalidPolicy",
                    "InvalidSignatureType"}

\* a run with --shares 0 has been aborted after the metadata fetch
C15_Witness ==
    /\ pc = "fatal" /\ main.fatal = "InvalidSize" /\ main.argv.shares = 0
    /\ main.clients = 2 /\ SubmissionCalls = 0

\* the quote sanity check has just let the window go on
QuoteCheckStep == pc = "bookDown" /\ pc' # "bookDown"
FourQuotes(m) == <<m.upTop.bestBid, m.upTop.bestAsk, m.downTop.bestBid, m.downTop.bestAsk>>
StrictlyInside(x) == x > 0 /\ x < ONE

\* C13 as claimed: without the override the window goes on to the submission
\* of the legs only if all four quotes lie strictly inside (0, 1).
C13_SubmitsOnlyIfAllFourInside ==
    [][(QuoteCheckStep /\ ~main.argv.allowWeird /\ pc' \in {"waitStart", "postUp"})
       => \A i \in 1..4 : StrictlyInside(FourQuotes(main')[i])]_vars

\* C13 as amended: without the override the window goes on only if every
\* quote that is present and numeric lies strictly inside (0, 1); a quote
\* <= 0 or >= 1 ends the window in the quote error with no submission call;
\* with the override the quote error never occurs; and no leg is submitted in
\* a window that has not passed the check.
C13_SubmitsOnlyIfPresentQuotesInside ==
    [][/\ (QuoteCheckStep /\ ~main.argv.allowWeird) =>
            LET q == FourQuotes(main')
                weird == \E i \in 1..4 : q[i] # NULL /\ q[i] # NAN /\ (q[i] <= 0 \/ q[i] >= ONE)
            IN /\ pc' \in {"waitStart", "postUp"} =>
                     \A i \in 1..4 : q[i] \in {NULL, NAN} \/ StrictlyInside(q[i])
               /\ (weird /\ main'.fatal # "BookFailed") =>
                     /\ pc' = "fatal" /\ main'.fatal = "WeirdQuotes"
                     /\ Len(main'.posts) = 0 /\ exch' = exch
       /\ main.argv.allowWeird => main'.fatal # "WeirdQuotes"
       /\ Len(main'.posts) > 0 =>
            \E i \in 1..Len(main'.trace) : main'.trace[i] = "quotes"]_vars

\* without the override the check has let the window go on with a normal UP
\* book and an empty DOWN book
C13_Witness ==
    /\ pc = "postUp" /\ ~main.argv.allowWeird
    /\ main.upTop = [bestBid |-> 480, bestAsk |-> 500]
    /\ main.downTop = NoTop

\* the steps of a window in the order the claim gives them
StepOrder == <<"metadata", "size", "quotes", "wait", "UP", "DOWN">>

\* C14: the steps a window has taken are always an initial part of metadata
\* fetch, price/size computation, quote check, wait for the start, UP
\* submission, DOWN submission; every submission call is made at or after the
\* window start; and as long as no submission call has been made, also in a
\* run that has failed, the window has no order on the exchange.
C14_PlacementOrder ==
    /\ \E k \in 0..Len(StepOrder) : main.trace = SubSeq(StepOrder, 1, k)
    /\ \A i \in 1..Len(main.posts) :
          /\ main.posts[i].at >= main.posts[i].start
          /\ main.posts[i].start = main.windowStartMs
    /\ SubmissionCalls = 0 => OrdersSubmitted = {}
    /\ (pc = "fatal" /\ main.fatal \notin {"PostUpFailed", "PostDownFailed", "LoopThrow"})
          => SubmissionCalls = 0 /\ OrdersSubmitted = {}

\* both legs were submitted after a wait for a window start that lay in the
\* future when main() began
C14_Witness ==
    /\ pc = "loopHead" /\ main.trace = StepOrder
    /\ main.startedAt < main.windowStartMs
    /\ main.posts[1].at >= main.windowStartMs
    /\ OrdersSubmitted = {UpId, DownId}

\* C19: a rejected submission of a leg ends the run at that call: after a
\* rejected DOWN submission the accepted UP order is still live, no cancel has
\* been issued, the deadline was never set and no observation was made; after
\* a rejected UP submission no call for DOWN is made and no order is on the
\* exchange.
C19_SubmissionFailureIsFatal ==
    /\ \A i \in 1..Len(main.posts) :
          ~main.posts[i].ok => pc = "fatal" /\ i = Len(main.posts)
    /\ (SubmissionCalls = 2 /\ ~main.posts[2].ok) =>
          /\ main.posts[1].leg = "UP" /\ main.posts[1].ok /\ main.posts[2].leg = "DOWN"
          /\ main.fatal = "PostDownFailed"
          /\ OrdersSubmitted = {UpId} /\ exch[UpId].live
          /\ acts.cancels = <<>> /\ cancelAtMs = NULL /\ obs.n = 0 /\ ~rtdClient
    /\ (SubmissionCalls >= 1 /\ ~main.posts[1].ok) =>
          /\ SubmissionCalls = 1 /\ main.posts[1].leg = "UP"
          /\ main.fatal = "PostUpFailed"
          /\ OrdersSubmitted = {}

\* the run has ended on a rejected DOWN submission with the UP order live
C19_Witness ==
    /\ pc = "fatal" /\ main.fatal = "PostDownFailed"
    /\ exch[UpId].placed /\ exch[UpId].live /\ ~exch[DownId].placed

\* the repeat loop starts its next window
NextWindowStep == main'.windows = main.windows + 1 /\ main.windows >= 1

\* C16: in repeat mode the start of every window is the start of the window
\* before it plus the period.
C16_StartIsPreviousPlusPeriod ==
    [][NextWindowStep => main'.windowStartMs = main.windowStartMs + PeriodSec]_vars

\* the first start by the priority of the claim: the explicit timestamp, else
\* the epoch at the end of the market identifier, else the next boundary of
\* the period, else now
ClaimedFirstStart(a, t) ==
    IF a.startAt # <<>> THEN a.startAt[1] * 60 + a.startAt[2]
    ELSE IF a.alignMarket THEN a.slug[Len(a.slug)]
    ELSE IF a.align15 THEN CHOOSE b \in t..(t + PeriodSec) : b % PeriodSec = 0 /\ b - t < PeriodSec
    ELSE t

\* C17: in single-window mode and in repeat mode the first window that is
\* run has the start the priority gives.
C17_FirstStartByPriority ==
    (main.windows = 1 /\ pc # "fatal") =>
        main.windowStartMs = ClaimedFirstStart(main.argv, main.startedAt)

\* C18: the repeat loop starts a window only when the window before it has
\* returned from its closing sweep; every step of placement and every
\* submission call belongs to the one window that is open, and a window is
\* placed only after the clients of all windows before it were built and
\* dropped, whatever the duration of the windows.
C18_WindowsNeverOverlap ==
    [][/\ NextWindowStep => (pc = "closed" /\ pc' = "creds" /\ main'.posts = <<>>)
       /\ main'.windows >= main.windows
       /\ (pc \in {"creds", "marketUp", "marketDown", "bookUp", "bookDown",
                    "waitStart", "postUp", "postDown", "loopHead"}
              /\ main'.windows = main.windows /\ pc' # pc) => pc' # "creds"
       /\ \A i \in 1..Len(main'.posts) : main'.posts[i].window = main'.windows]_vars

\* the second window of a run whose windows last longer than the period is
\* being placed, after its start time has passed
C18_Witness ==
    /\ main.argv.repeat /\ main.argv.duration > PeriodSec
    /\ main.windows = 2 /\ pc = "postDown" /\ now > main.windowStartMs
    /\ SubmissionCalls = 1

\* C21: under policy cancel the mitigating observation is followed by exactly
\* one cancel, aimed at the order of the leg that observation read without a
\* match; whether it succeeds or fails the loop goes on to its sleep, is left
\* only at the deadline or by a both-full observation, and the closing sweep
\* attempts both legs; no hedge is submitted.
C21_CancelsUnfilledLegOnce ==
    [][cfg.policy = "cancel" =>
         /\ acts'.hedges = <<>>
         /\ Len(MitigationCancels') <= 1
         /\ acts'.mitCount > acts.mitCount => pc' = "mitCancel"
         /\ (pc = "mitCancel" /\ pc' # "mitCancel") =>
               /\ Len(MitigationCancels') = 1
               /\ OneSomeRead
               /\ MitigationCancels'[1].id = (IF obs.up > 0 THEN DownId ELSE UpId)
               /\ pc' = "sleep" /\ acts'.fatalIn = "none"
         /\ (acts.mitCount = 1 /\ pc # "sweep" /\ pc' = "sweep") =>
               (now >= cancelAtMs \/ (ObservationStep /\ BothFullRead'))
         /\ pc' = "closed" => SweepIds' = <<UpId, DownId>>]_vars

\* the window has closed after a failed cancel of the DOWN order, which the
\* mitigating observation had read without a match, and a sweep of both legs
C21_Witness ==
    /\ cfg.policy = "cancel" /\ pc = "closed"
    /\ Len(MitigationCancels) = 1
    /\ MitigationCancels[1].id = DownId /\ ~MitigationCancels[1].ok
    /\ SweepIds = <<UpId, DownId>>

\* C22: under policy wait no order is cancelled and none is submitted from
\* the head of the loop to the closing sweep, whatever the fills: both legs
\* stay live, no hedge order exists; the observation that finds the grace
\* period over sets the latch and goes on to the sleep of the loop, which is
\* left only at the deadline or by a both-full observation.
C22_WaitDoesNothing ==
    [][cfg.policy = "wait" =>
         /\ acts'.hedges = <<>> /\ MitigationCancels' = <<>>
         /\ ~exch'[HedgeId].placed
         /\ InLoop' => exch'[UpId].live /\ exch'[DownId].live
         /\ pc' \notin {"mitCancel", "hedgeBook", "hedgeSubmit", "fatal"}
         /\ acts'.mitCount > acts.mitCount => actedOnSingleFill' /\ pc' = "sleep"
         /\ (pc # "sweep" /\ pc' = "sweep") =>
               (now >= cancelAtMs \/ (ObservationStep /\ BothFullRead'))]_vars

\* under policy wait the latch is set and a later observation is under way
\* with the pair still filled on one side and both orders live
C22_Witness ==
    /\ cfg.policy = "wait" /\ actedOnSingleFill /\ acts.mitCount = 1
    /\ pc = "readDown" /\ exch[UpId].matched > 0 /\ exch[DownId].matched = 0
    /\ exch[UpId].live /\ exch[DownId].live

\* C26: the grace timer is written at most once in a window: once set it is
\* never changed, whatever the later observations read, and it is the time of
\* the first observation that read exactly one leg with a nonzero match.
C26_GraceTimerWrittenOnce ==
    [][/\ firstSingleFillAtMs # NULL => firstSingleFillAtMs' = firstSingleFillAtMs
       /\ firstSingleFillAtMs' # NULL =>
             /\ firstSingleFillAtMs' = obs'.firstOneSomeAt
             /\ firstSingleFillAtMs' <= now']_vars

\* the timer was set by the first observation, the second read the pair as
\* not filled on one side only (it would have mitigated otherwise), and the
\* third reads it filled on one side again and mitigates on the old timer
C26_Witness ==
    /\ cfg.grace > 0 /\ firstSingleFillAtMs = 0 /\ obs.n = 3
    /\ pc \in {"mitCancel", "hedgeBook"} /\ OneSomeRead
    /\ now >= firstSingleFillAtMs + 2 * cfg.poll

FilledOrder == exch[IF mit.side = "UP" THEN UpId ELSE DownId]

\* C30: the hedge is submitted exactly when the best ask read at the
\* mitigation step is at most 1 - submittedPrice - minHedgeEdge, where
\* submittedPrice is the tick-quantized price of the filled leg's order.
C30_CeilingFromSubmittedPrice ==
    [][(pc = "hedgeBook" /\ mit'.bookRead /\ mit'.bestAsk >= 0) =>
          ((pc' = "hedgeSubmit") <=>
             (mit'.bestAsk <= ONE - FilledOrder.price - MIN_HEDGE_EDGE))]_vars

\* C25: the deadline of every window is its resolved start plus the
\* configured duration.
C25_DeadlineIsStartPlusDuration ==
    cancelAtMs # NULL => cancelAtMs = main.windowStartMs + main.argv.duration

\* the part of the market identifier after its last "-"
LastPart(slug) == slug[Len(slug)]

\* C28: when the start is taken from the market identifier (no explicit
\* timestamp, align-market-start set) and the part after the last "-" is a
\* positive number s, main() resolves the start s and a single window starts
\* at s; when that part is empty, zero or no number, or there is no
\* identifier, main() fails before any client is built, no window is run and
\* no order is submitted.
C28_StartFromIdentifier ==
    LET a == main.argv
    IN (/\ ConfigError(a) = "none" /\ a.startAt = <<>> /\ a.alignMarket
        /\ pc # "main")
       => IF a.slug # <<>> /\ LastPart(a.slug) \notin {NAN, EMPTY} /\ LastPart(a.slug) > 0
          THEN /\ main.fatal # "InvalidStart"
               /\ main.resolvedStartMs = LastPart(a.slug)
               /\ ~a.repeat => main.windowStartMs = LastPart(a.slug)
               /\ \A i \in 1..Len(main.posts) : main.posts[i].at >= LastPart(a.slug)
          ELSE /\ pc = "fatal" /\ main.fatal = "InvalidStart"
               /\ main.windows = 0 /\ main.clients = 0
               /\ SubmissionCalls = 0 /\ OrdersSubmitted = {}

\* both legs of a single window were submitted at the start read off the
\* identifier btc-updown-x-1800
C28_Witness ==
    /\ main.argv.alignMarket /\ main.argv.startAt = <<>> /\ ~main.argv.repeat
    /\ main.argv.slug = <<NAN, NAN, NAN, 1800>>
    /\ pc = "loopHead" /\ main.windowStartMs = 1800
    /\ main.posts[1].at >= 1800 /\ OrdersSubmitted = {UpId, DownId}

\* C24: without an explicit share count the size of the legs is the budget
\* divided by the price, rounded to six decimals, so that size * price is the
\* budget to within half a unit of the sixth decimal times the price; a
\* budget or price that is <= 0 or not a number ends the run with no order
\* submitted; with an explicit share count that count is the size and the
\* budget is not read, whatever it is.
C24_SizeFromBudget ==
    LET a == main.argv
        price == NumOr(a.price, PRICE)
    IN /\ (a.shares = NULL /\ main.size # 0) =>
             /\ a.invest > 0 /\ price > 0
             /\ 2 * Abs(main.size * price - a.invest * ONE * Micro) <= price
       /\ (a.shares # NULL /\ main.size # 0) => main.size = a.shares * Micro
       /\ (a.shares = NULL /\ (a.invest = NAN \/ a.invest <= 0 \/ price = NAN \/ price <= 0)) =>
             /\ main.size = 0 /\ SubmissionCalls = 0 /\ OrdersSubmitted = {}
             /\ pc \in {"main", "creds", "marketUp", "marketDown", "fatal"}
       /\ \A i \in OrdersSubmitted : exch[i].size = main.size

\* both legs were submitted with the size of a budget of 2 dollars at price
\* 0.49, 4.081633 shares
C24_Witness ==
    /\ pc = "loopHead" /\ main.argv.shares = NULL
    /\ main.argv.invest = 2 /\ main.argv.price = 490
    /\ main.size = 4081633 /\ exch[UpId].size = 4081633 /\ exch[DownId].size = 4081633

\* a call of the helper has returned
Returned(fn) == pc = "returned" /\ main.fn = fn

\* C23 as claimed: for a tick size t > 0 the quantized price is a multiple of
\* t, at most p and more than p - t; for a tick size that is no positive
\* number it is p.
C23_RoundsDownNeverUp ==
    Returned("roundDownToTick") =>
        LET p == main.x
            t == main.y
            r == main.out
        IN IF t # NAN /\ t > 0
           THEN r % t = 0 /\ r <= p /\ r > p - t
           ELSE r = p

\* C23 as amended: the quantized price is a multiple of t, more than p - t,
\* and at most p except for a price within 1e-9 of a tick below a multiple of
\* t, which is taken to that multiple; a price that is a multiple of t is
\* returned as it is; for a tick size that is no positive number the price is
\* returned unchanged.
C23_RoundsDownWithinTolerance ==
    Returned("roundDownToTick") =>
        LET p == main.x
            t == main.y
            r == main.out
        IN IF t # NAN /\ t > 0
           THEN /\ r % t = 0 /\ r > p - t
                /\ r <= p \/ r - p <= t \div 1000000000
                /\ r > p => r = (p \div t + 1) * t
                /\ p % t = 0 => r = p
           ELSE r = p

\* a price half of 1e-9 of the tick below the tick has been quantized up to
\* the tick
C23_Witness ==
    /\ Returned("roundDownToTick")
    /\ main.y = 2000000000 /\ main.x = main.y - 1 /\ main.out = main.y

\* C27: ceilToWindowMs(now, minutes) is the smallest multiple of the period
\* that is >= now: it is a multiple of the period, it is >= now, it is less
\* than one period after now, no multiple of the period lies between now and
\* it, and it is now when now is a multiple of the period.
C27_SmallestBoundaryNotBeforeNow ==
    Returned("ceilToWindowMs") =>
        LET t == main.x
            period == main.y * 60
            r == main.out
        IN /\ r % period = 0 /\ r >= t /\ r - t < period
           /\ t % period = 0 => r = t
           /\ \A m \in t..r : m % period = 0 => m = r

\* called at 00:15:00 with a window of 15 minutes, it has returned 00:15:00
C27_Witness ==
    /\ Returned("ceilToWindowMs")
    /\ main.x = 900 /\ main.y = 15 /\ main.out = 900

\* a hedge submission was made in the window and was rejected
HedgeRejected == Len(acts.hedges) = 1 /\ ~acts.hedges[1].ok

\* C31: a rejected hedge submission leaves the iteration for the sleep of the
\* loop with the latch set and the exchange as it was; after it no other
\* hedge is submitted and no mitigation is entered, the window ends only at
\* the deadline or by a both-full observation, never in an error, and the
\* closing sweep attempts both legs.
C31_RejectedHedgeNotFatalNotRetried ==
    [][/\ (pc = "hedgeSubmit" /\ pc' # "hedgeSubmit" /\ HedgeRejected') =>
             /\ pc' = "sleep" /\ actedOnSingleFill'
             /\ exch' = exch /\ acts'.fatalIn = "none"
       /\ HedgeRejected =>
             /\ acts'.hedges = acts.hedges /\ acts'.mitCount = acts.mitCount
             /\ actedOnSingleFill' /\ ~exch'[HedgeId].placed
             /\ pc' \notin {"hedgeBook", "hedgeSubmit", "mitCancel", "fatal"}
             /\ (pc # "sweep" /\ pc' = "sweep") =>
                   (now >= cancelAtMs \/ (ObservationStep /\ BothFullRead'))
             /\ pc' = "closed" => SweepIds' = <<UpId, DownId>>]_vars

\* the window has closed after a rejected hedge submission and a sweep of
\* both legs, the pair still filled on one side
C31_Witness ==
    /\ HedgeRejected /\ pc = "closed" /\ SweepIds = <<UpId, DownId>>
    /\ exch[UpId].matched > 0 /\ exch[DownId].matched = 0

\* the pcs of an observation step: the two reads and the mitigation calls
StepPcs == {"readUp", "readDown", "mitCancel", "hedgeBook", "hedgeSubmit"}

\* C32: the feed callback does nothing but set the pending flag: its step
\* leaves the position of the loop, the reads, the timer, the latch, the
\* exchange and the calls made as they are; an observation step begins only
\* at the head of the loop, that is, when the step before it has ended, and a
\* mitigation call is begun only by the observation step in progress.
C32_ObservationIsCriticalSection ==
    [][/\ (\E topic \in Topics : OnMessage(topic)) =>
             /\ UNCHANGED <<pc, obs, upOrder, mit, exch, orderIds,
                            firstSingleFillAtMs, actedOnSingleFill>>
             /\ acts'.mitCount = acts.mitCount
             /\ acts'.hedges = acts.hedges /\ acts'.cancels = acts.cancels
       /\ (~rtdsTriggered /\ rtdsTriggered') => pc' = pc
       /\ (pc' = "readUp" /\ pc # "readUp") => pc = "loopHead"
       /\ (pc' \in StepPcs \ {"readUp"} /\ pc' # pc) => pc \in StepPcs
       /\ acts'.mitCount > acts.mitCount => pc = "readDown"]_vars

\* a feed notification has arrived while the hedge submission of the
\* observation step was in flight
C32_Witness ==
    /\ cfg.useRtds /\ rtdClient /\ rtdsTriggered
    /\ pc = "hedgeSubmit" /\ acts.mitCount = 1

\* C34: a hedge submission changes nothing on the exchange but the hedge
\* order: no cancel is made before the sweep, and the order of the missing
\* leg stays open until the sweep (or until it is filled), beside the hedge
\* order for the same token.
C34_HedgeLeavesMissingLegLive ==
    [][/\ (pc = "hedgeSubmit" /\ pc' # "hedgeSubmit") =>
             /\ exch'[UpId] = exch[UpId] /\ exch'[DownId] = exch[DownId]
             /\ acts'.cancels = acts.cancels
       /\ (exch'[HedgeId].placed /\ InLoop') =>
             /\ MitigationCancels' = <<>>
             /\ exch'[unfilledOrderId(mit'.side)].live
             /\ exch'[unfilledOrderId(mit'.side)].token = exch'[HedgeId].token]_vars

\* UP was matched (1 share), the hedge for DOWN was accepted, and then both
\* the DOWN leg and the hedge were matched: more was submitted, and more is
\* matched, on DOWN than on UP
C34_Witness ==
    /\ exch[HedgeId].placed /\ exch[HedgeId].token = "DOWN" /\ InLoop
    /\ exch[DownId].size + exch[HedgeId].size > exch[UpId].size
    /\ exch[DownId].matched > 0 /\ exch[HedgeId].matched > 0
    /\ exch[DownId].matched + exch[HedgeId].matched > exch[UpId].matched

\* C38: the pending flag is cleared only by the loop head that starts an
\* observation, before the reads; a flag set at any later point stays set
\* through the reads, the mitigation calls and the sleeps, and the next loop
\* head that finds it set before the deadline starts an observation.
C38_NoLostWakeup ==
    [][/\ (rtdsTriggered /\ ~rtdsTriggered') => (pc = "loopHead" /\ pc' = "readUp")
       /\ (pc = "loopHead" /\ pc' # "loopHead" /\ cfg.useRtds /\ rtdClient) =>
             /\ (rtdsTriggered /\ now < cancelAtMs) => pc' = "readUp"
             /\ pc' = "readUp" => rtdsTriggered /\ ~rtdsTriggered'
             /\ pc' = "idleSleep" => ~rtdsTriggered]_vars

\* in event-feed mode a second observation was made one poll interval after
\* the first: its wake-up arrived after the flag was cleared for the first
C38_Witness ==
    /\ cfg.useRtds /\ rtdClient /\ obs.n = 2 /\ pc = "sleep"
    /\ now < cancelAtMs

\* C39: from the start of the closing sweep on there is no fill read, no
\* mitigation and no order submission; an observation step, and so a
\* mitigation, is entered only from a loop head that found the clock before
\* the deadline.
C39_NothingAfterSweepStarts ==
    [][/\ pc \in {"sweep", "closed"} =>
             /\ pc' \in {"sweep", "closed"}
             /\ obs' = obs /\ upOrder' = upOrder
             /\ acts'.hedges = acts.hedges /\ acts'.mitCount = acts.mitCount
             /\ exch'[HedgeId].placed = exch[HedgeId].placed
             /\ MitigationCancels' = MitigationCancels
       /\ (pc' \in StepPcs /\ pc \notin StepPcs) => (pc = "loopHead" /\ now < cancelAtMs)
       /\ (acts'.mitCount > acts.mitCount \/ MitigationCallStep) => pc \in StepPcs]_vars

\* a hedge is about to be submitted after the deadline has passed, in an
\* iteration that began before it
C39_Witness ==
    /\ pc = "hedgeSubmit" /\ now >= cancelAtMs

\* C40: a hedge order submitted on a best ask that is a multiple of the tick
\* size of the missing leg has a limit price of at least that ask.
C40_HedgeCrossesObservedAsk ==
    \A i \in 1..Len(acts.hedges) :
        (mit.bestAsk % otherTick(mit.side) = 0) => acts.hedges[i].price >= mit.bestAsk

\* a hedge order was accepted at 0.50 on a best ask of 0.50, with a tick of
\* 0.1 on its token and 1 - price - minHedgeEdge = 0.508
C40_Witness ==
    /\ Len(acts.hedges) = 1 /\ acts.hedges[1].ok
    /\ mit.bestAsk = 500 /\ otherTick(mit.side) = 100 /\ acts.hedges[1].price = 500

\* the locals of the window are as runOneWindow declares them
FreshLocals == firstSingleFillAtMs = NULL /\ ~actedOnSingleFill /\ ~rtdsTriggered

\* the pcs of a window before its first submission
BeforePosts == {"creds", "marketUp", "marketDown", "bookUp", "bookDown", "waitStart", "postUp"}

\* C33: in repeat mode a window after the first has, up to the head of its
\* loop, the timer unset, the latch and the pending flag false, and an id
\* list that holds the ids of its own accepted submissions and nothing else:
\* empty before the first, both legs at the head of the loop.
C33_ManagerStatePerWindow ==
    (main.argv.repeat /\ main.windows >= 2 /\ pc \in BeforePosts \cup {"postDown", "loopHead"}) =>
        /\ FreshLocals
        /\ \A i \in 1..Len(main.posts) : main.posts[i].window = main.windows
        /\ Len(orderIds) = Cardinality({i \in 1..Len(main.posts) : main.posts[i].ok})
        /\ pc \in BeforePosts => orderIds = <<>> /\ OrdersSubmitted = {}
        /\ pc = "postDown" => orderIds = <<UpId>>
        /\ pc = "loopHead" => orderIds = <<UpId, DownId>> /\ cancelAtMs # NULL

\* the second window is at the head of its loop with its own two legs, the
\* first window having ended with its latch set
C33_Witness ==
    /\ main.argv.repeat /\ main.windows = 2 /\ main.prevActed
    /\ pc = "loopHead" /\ orderIds = <<UpId, DownId>> /\ FreshLocals

QuoteChecks == Cardinality({i \in 1..Len(main.trace) : main.trace[i] = "quotes"})

\* C36: the quote check is made once in a window, before the wait: from the
\* wait on the books are not read again and the run cannot end on weird
\* quotes, a movement of a quote changes nothing of the program, and the UP
\* submission is called after the wait whatever the quotes have become.
C36_QuoteCheckOncePerWindow ==
    [][/\ pc \in {"waitStart", "postUp", "postDown"} =>
             /\ pc' \notin {"bookUp", "bookDown"}
             /\ main'.fatal # "WeirdQuotes"
       /\ QuoteCheckStep => QuoteChecks = 0
       /\ pc' \in {"waitStart", "postUp", "postDown", "loopHead"} => QuoteChecks' = 1
       /\ QuoteMoves => pc' = pc /\ main'.trace = main.trace /\ main'.posts = main.posts
       /\ (pc = "postUp" /\ pc' # "postUp") =>
             /\ Len(main'.posts) = Len(main.posts) + 1
             /\ main'.posts[Len(main'.posts)].leg = "UP"
       /\ (pc = "postDown" /\ pc' # "postDown") =>
             /\ Len(main'.posts) = Len(main.posts) + 1
             /\ main'.posts[Len(main'.posts)].leg = "DOWN"]_vars

\* both legs were accepted although a quote had moved to 0 or 1 after the
\* check, in a run that does not allow weird quotes
C36_Witness ==
    /\ ~main.argv.allowWeird /\ pc = "loopHead"
    /\ Len(main.posts) = 2 /\ main.posts[1].quoteMoved
    /\ main.posts[1].ok /\ main.posts[2].ok

\* C37: when both books were read and every quote that is present lies
\* strictly between 0 and 1, the quote check passes and placement goes on to
\* the wait or to the UP submission, whichever quotes are missing.
C37_MissingQuoteNotUnsafe ==
    [][(/\ QuoteCheckStep /\ ~main.argv.allowWeird /\ main'.fatal # "BookFailed"
        /\ \A i \in 1..4 : FourQuotes(main')[i] = NULL \/ StrictlyInside(FourQuotes(main')[i]))
           => (pc' \in {"waitStart", "postUp"} /\ main'.fatal = "none")]_vars

\* the check has passed with both books empty: all four quotes are missing
C37_Witness ==
    /\ ~main.argv.allowWeird /\ pc \in {"waitStart", "postUp"}
    /\ main.upTop = NoTop /\ main.downTop = NoTop

====
